---------------------------- MODULE Spec2Model ----------------------------
(***************************************************************************)
(* A model of the rt-stt daemon: the energy VAD (audio/vad.cpp), the STT   *)
(* engine with its utterance queue and worker (stt/engine.cpp), the text   *)
(* cleanup of the ASR wrapper (stt/whisper_wrapper.cpp), the IPC server    *)
(* (ipc/server.cpp) and the command handler and shutdown sequence of the   *)
(* daemon (main.cpp).                                                      *)
(*                                                                         *)
(* Floats are fixed-point integers in units of 1/Scale.  A block of audio  *)
(* samples is a sequence of chunks <<frame, first, last>>: the samples     *)
(* first..last of the frame-th frame fed to the engine.                    *)
(***************************************************************************)
EXTENDS Integers, Sequences, FiniteSets, TLC

\* ------------------------------------------------------------------ bounds
\* Frames fed to feed_audio in one behaviour.
MaxFrames == 8
\* Length of one driver buffer in milliseconds.
FrameMs == 250
\* Commands issued by the control side in the engine specification.
MaxCmds == 2
\* Descriptors the accept call may hand out (1..MaxFd).
MaxFd == 2
\* Connections accepted in one behaviour.
MaxAccepts == 2
\* Messages one client sends on one connection.
MaxMsgs == 1
\* Transcription results handed to the transcription callback in the server specification.
MaxEvents == 2
\* Messages a client that only changes its subscription sends on one connection.
MaxSubMsgs == 3
\* Frames with chosen length prefixes a client sends on one connection.
MaxFramed == 2
\* Frames of any energies a VAD driven directly is fed.
MaxFree == 5
\* Frames a VAD driven directly is fed when all of them have one energy.
MaxConstant == 25
\* update_config and reset calls on a VAD driven directly.
MaxVadOps == 1
\* the longest text the ASR back end returns in the text cleanup model, in bytes
MaxText == 3
\* the most frames one capture callback delivers in the capture model
MaxCaptureFrames == 2
\* the most chunks pushed to the queue in the wake-up model
MaxEnqueues == 2

\* ------------------------------------------------------- program constants
\* VADConfig::sample_rate
SampleRate == 16000
\* energy_history_ length
HistorySize == 100
\* min_samples in the speech-end branch of the state callback
MinSamples == 8000

Scale == 10 * 10

Min(a, b) == IF a < b THEN a ELSE b
Max(a, b) == IF a > b THEN a ELSE b

\* ------------------------------------------------------------- sample blocks
ChunkLen(c) == c[3] - c[2] + 1

RECURSIVE Size(_)
Size(buf) == IF buf = <<>> THEN 0 ELSE ChunkLen(Head(buf)) + Size(Tail(buf))

\* std::deque::pop_front, k times
RECURSIVE PopFront(_, _)
PopFront(buf, k) ==
    IF k = 0 \/ buf = <<>> THEN buf
    ELSE LET c == Head(buf) IN
         IF ChunkLen(c) <= k THEN PopFront(Tail(buf), k - ChunkLen(c))
         ELSE <<(<<c[1], c[2] + k, c[3]>>)>> \o Tail(buf)

FrameChunk(frame) == IF frame.n = 0 THEN <<>> ELSE <<(<<frame.id, 1, frame.n>>)>>

FramesOf(buf) == {buf[i][1] : i \in DOMAIN buf}

\* ----------------------------------------------------------------------- VAD
VadStates == {"SILENCE", "SPEECH_MAYBE", "SPEECH", "SPEECH_ENDING"}

\* The configurations the daemon is started with.
VadConfigs ==
    [energy_threshold : {10},
     speech_start_threshold : {108},
     speech_end_threshold : {85},
     speech_start_ms : {250},
     speech_end_ms : {500},
     min_speech_ms : {250, 750},
     pre_speech_buffer_ms : {500},
     use_adaptive_threshold : {TRUE},
     noise_floor_adaptation_rate : {1},
     sample_rate : {SampleRate}]

\* RMS energies of the frames fed.
Energies == {5, 20}

\* energy_history_ holds HistorySize energies.  It is kept as the entries written since
\* the last assign(), in index order, and the value the assign() filled it with: entry i
\* is written[i] when it has been written and base otherwise.
HistoryAssign(value) == [base |-> value, written |-> <<>>]

\* energy_history_[idx] = energy (idx counted from 0)
HistoryStore(h, idx, energy) ==
    IF idx = Len(h.written)
    THEN [h EXCEPT !.written = Append(@, energy)]
    ELSE [h EXCEPT !.written[idx + 1] = energy]

\* entries of the history that are <= x
CountUpTo(h, x) ==
    Cardinality({i \in DOMAIN h.written : h.written[i] <= x})
    + (IF h.base <= x /\ Len(h.written) < HistorySize THEN HistorySize - Len(h.written) ELSE 0)

\* sorted_history[k] (k counted from 0) of the sorted copy
SortedAt(h, k) ==
    LET values == {h.written[i] : i \in DOMAIN h.written}
                  \cup (IF Len(h.written) < HistorySize THEN {h.base} ELSE {})
        enough == {x \in values : CountUpTo(h, x) >= k + 1}
    IN CHOOSE x \in enough : \A y \in enough : x <= y

\* VAD::VAD followed by VAD::update_config, as STTEngine::initialize leaves it
VadInit(config) ==
    [config |-> config,
     state |-> "SILENCE",
     current_energy |-> 0,
     noise_floor |-> config.energy_threshold,
     speech_frames |-> 0,
     silence_frames |-> 0,
     energy_history |-> HistoryAssign(config.energy_threshold),
     energy_history_idx |-> 0,
     audio_buffer |-> <<>>,
     frames_per_ms |-> config.sample_rate \div 1000,
     buffer_max_samples |-> (config.pre_speech_buffer_ms * config.sample_rate) \div 1000]

\* VAD::calculate_energy: the RMS of the frame, 0 for an empty frame
calculate_energy(frame) == IF frame.n = 0 THEN 0 ELSE frame.rms

\* VAD::update_noise_floor
update_noise_floor(v, energy) ==
    LET hist == HistoryStore(v.energy_history, v.energy_history_idx, energy)
        idx == (v.energy_history_idx + 1) % HistorySize
        percentile_idx == HistorySize \div 5
        new_noise_floor == SortedAt(hist, percentile_idx)
        rate == v.config.noise_floor_adaptation_rate
        smoothed == (v.noise_floor * (Scale - rate) + new_noise_floor * rate) \div Scale
    IN [v EXCEPT !.energy_history = hist,
                 !.energy_history_idx = idx,
                 !.noise_floor = Max(smoothed, v.config.energy_threshold \div 2)]

\* VAD::update_buffer
update_buffer(v, frame) ==
    LET added == v.audio_buffer \o FrameChunk(frame)
        over == Size(added) - v.buffer_max_samples
    IN [v EXCEPT !.audio_buffer = IF over > 0 THEN PopFront(added, over) ELSE added]

\* a comparison that also takes an energy equal to the speech threshold for speech
AtOrAboveSpeech(v, e) ==
    IF v.config.use_adaptive_threshold
    THEN e * Scale >= v.noise_floor * v.config.speech_start_threshold
    ELSE e >= v.config.speech_start_threshold

\* e > noise_floor * speech_start_threshold (adaptive), e > speech_start_threshold otherwise
AboveSpeech(v, e) ==
    IF v.config.use_adaptive_threshold
    THEN e * Scale > v.noise_floor * v.config.speech_start_threshold
    ELSE e > v.config.speech_start_threshold

\* e < noise_floor * speech_end_threshold (adaptive), e < speech_end_threshold otherwise
BelowSilence(v, e) ==
    IF v.config.use_adaptive_threshold
    THEN e * Scale < v.noise_floor * v.config.speech_end_threshold
    ELSE e < v.config.speech_end_threshold

\* the switch of VAD::process: the VAD after the frame
StateMachine(v, n) ==
    LET e == v.current_energy IN
    CASE v.state = "SILENCE" ->
           IF AboveSpeech(v, e)
           THEN [v EXCEPT !.state = "SPEECH_MAYBE", !.speech_frames = n, !.silence_frames = 0]
           ELSE v
      [] v.state = "SPEECH_MAYBE" ->
           IF AboveSpeech(v, e)
           THEN IF v.speech_frames + n >= v.config.speech_start_ms * v.frames_per_ms
                THEN [v EXCEPT !.state = "SPEECH", !.speech_frames = @ + n]
                ELSE [v EXCEPT !.speech_frames = @ + n]
           ELSE [v EXCEPT !.state = "SILENCE", !.speech_frames = 0]
      [] v.state = "SPEECH" ->
           IF BelowSilence(v, e)
           THEN [v EXCEPT !.state = "SPEECH_ENDING", !.silence_frames = n]
           ELSE [v EXCEPT !.speech_frames = @ + n]
      [] v.state = "SPEECH_ENDING" ->
           IF BelowSilence(v, e)
           THEN IF v.silence_frames + n >= v.config.speech_end_ms * v.frames_per_ms
                THEN [v EXCEPT !.state = "SILENCE", !.speech_frames = 0, !.silence_frames = 0]
                ELSE [v EXCEPT !.silence_frames = @ + n]
           ELSE [v EXCEPT !.state = "SPEECH", !.silence_frames = 0]

\* a VAD that adapts its noise floor on every frame, whatever its state
BeforeStateMachineAdapting(v, frame) ==
    LET v1 == [v EXCEPT !.current_energy = calculate_energy(frame)]
        v2 == IF v1.config.use_adaptive_threshold
              THEN update_noise_floor(v1, v1.current_energy)
              ELSE v1
    IN update_buffer(v2, frame)

\* VAD::process up to the state machine: energy, noise floor, pre-speech ring
BeforeStateMachine(v, frame) ==
    LET v1 == [v EXCEPT !.current_energy = calculate_energy(frame)]
        v2 == IF v1.config.use_adaptive_threshold /\ v1.state = "SILENCE"
              THEN update_noise_floor(v1, v1.current_energy)
              ELSE v1
    IN update_buffer(v2, frame)

\* VAD::process
process(v, frame) == StateMachine(BeforeStateMachine(v, frame), frame.n)

\* VAD::reset
reset(v) ==
    LET r == [v EXCEPT !.state = "SILENCE", !.speech_frames = 0, !.silence_frames = 0,
                       !.audio_buffer = <<>>, !.current_energy = 0]
    IN IF v.config.use_adaptive_threshold
       THEN [r EXCEPT !.noise_floor = v.config.energy_threshold,
                      !.energy_history = HistoryAssign(v.config.energy_threshold),
                      !.energy_history_idx = 0]
       ELSE r

\* VAD::update_config
update_config(v, config) ==
    LET u == [v EXCEPT !.config = config,
                       !.frames_per_ms = config.sample_rate \div 1000,
                       !.buffer_max_samples =
                           (config.pre_speech_buffer_ms * config.sample_rate) \div 1000]
    IN IF config.use_adaptive_threshold
       THEN [u EXCEPT !.noise_floor = config.energy_threshold,
                      !.energy_history = HistoryAssign(config.energy_threshold),
                      !.energy_history_idx = 0]
       ELSE u

\* a change_state that calls the observer whether or not the state differs
ChangeStateAlways(state, new_state) == <<<<state, new_state>>>>

\* VAD::change_state: the calls of the state callback it makes
change_state(state, new_state) ==
    IF state # new_state THEN <<<<state, new_state>>>> ELSE <<>>

\* The configurations a VAD driven directly is given: the thresholds of the daemon with a
\* longer speech_start_ms, adaptive thresholds with a speech_start_threshold multiplier
\* below 1 (the defaults of VADConfig are of this kind), and fixed thresholds.
VadTestConfigs ==
    {[energy_threshold |-> 10, speech_start_threshold |-> 108, speech_end_threshold |-> 85,
      speech_start_ms |-> 750, speech_end_ms |-> 500, min_speech_ms |-> 250,
      pre_speech_buffer_ms |-> 500, use_adaptive_threshold |-> TRUE,
      noise_floor_adaptation_rate |-> 1, sample_rate |-> SampleRate],
     [energy_threshold |-> 10, speech_start_threshold |-> 80, speech_end_threshold |-> 60,
      speech_start_ms |-> 250, speech_end_ms |-> 500, min_speech_ms |-> 250,
      pre_speech_buffer_ms |-> 500, use_adaptive_threshold |-> TRUE,
      noise_floor_adaptation_rate |-> 1, sample_rate |-> SampleRate],
     [energy_threshold |-> 40, speech_start_threshold |-> 20, speech_end_threshold |-> 6,
      speech_start_ms |-> 250, speech_end_ms |-> 250, min_speech_ms |-> 250,
      pre_speech_buffer_ms |-> 250, use_adaptive_threshold |-> FALSE,
      noise_floor_adaptation_rate |-> 1, sample_rate |-> SampleRate]}

\* RMS energies of the frames a VAD driven directly is fed.
VadEnergies == {5, 6, 20, 30}

\* e < noise_floor * speech_start_threshold (adaptive), e < speech_start_threshold otherwise
BelowSpeech(v, e) ==
    IF v.config.use_adaptive_threshold
    THEN e * Scale < v.noise_floor * v.config.speech_start_threshold
    ELSE e < v.config.speech_start_threshold


\* ----------------------------------------------------------- text cleanup
Whitespace == {" ", "\t", "\n", "\r"}
Alnum == {"a", "b", "1"}

\* The segment texts the ASR back end may return for an utterance.
RawTexts == {<<".", ".">>, <<" ", "a", " ", " ", "b", " ">>}

\* std::string::find_first_not_of(" \t\n\r"): 0 when there is none
FirstNotOf(t) ==
    LET ix == {i \in DOMAIN t : t[i] \notin Whitespace}
    IN IF ix = {} THEN 0 ELSE CHOOSE i \in ix : \A j \in ix : i <= j

\* std::string::find_last_not_of(" \t\n\r"): 0 when there is none
LastNotOf(t) ==
    LET ix == {i \in DOMAIN t : t[i] \notin Whitespace}
    IN IF ix = {} THEN 0 ELSE CHOOSE i \in ix : \A j \in ix : i >= j

\* the trim of WhisperWrapper::process_segment (two erase calls)
SegmentTrim(t) ==
    IF FirstNotOf(t) = 0 THEN <<>> ELSE SubSeq(t, FirstNotOf(t), LastNotOf(t))

\* the loop "while ((pos = cleaned.find("  ", pos)) != npos) cleaned.replace(pos, 2, " ")"
RECURSIVE CollapseSpaces(_)
CollapseSpaces(t) ==
    LET ix == {i \in 1..(Len(t) - 1) : t[i] = " " /\ t[i + 1] = " "}
    IN IF ix = {} THEN t
       ELSE LET pos == CHOOSE i \in ix : \A j \in ix : i <= j
            IN CollapseSpaces(SubSeq(t, 1, pos) \o SubSeq(t, pos + 2, Len(t)))

\* the trim of WhisperWrapper::process_stream: only when both ends are found
StreamTrim(t) ==
    IF FirstNotOf(t) # 0 /\ LastNotOf(t) # 0 THEN SubSeq(t, FirstNotOf(t), LastNotOf(t)) ELSE t

Cleaned(raw) == StreamTrim(CollapseSpaces(SegmentTrim(raw)))

\* a filter that asks for an alphanumeric character only
AcceptedOfAnyLength(raw) ==
    /\ SegmentTrim(raw) # <<>>
    /\ \E i \in DOMAIN Cleaned(raw) : Cleaned(raw)[i] \in Alnum

\* has_alphanumeric && cleaned.length() > 1, for a non-empty segment text
Accepted(raw) ==
    /\ SegmentTrim(raw) # <<>>
    /\ \E i \in DOMAIN Cleaned(raw) : Cleaned(raw)[i] \in Alnum
    /\ Len(Cleaned(raw)) > 1

\* ---------------------------------------------------------------- models
\* Model paths a client may ask for; whisper_init_from_file_with_params
\* returns a context for the loadable ones and null for the others.
ModelPaths == {"base.bin", "missing.bin"}
Loadable == {"small.bin", "base.bin"}
NullCtx == "null"

\* WhisperWrapper::WhisperWrapper: no context yet
NewWhisper == [ctx |-> NullCtx]

\* WhisperWrapper::initialize: <<ok, wrapper>>
initialize(w, model_path) ==
    IF model_path \in Loadable THEN <<TRUE, [w EXCEPT !.ctx = model_path]>>
    ELSE <<FALSE, [w EXCEPT !.ctx = NullCtx]>>

\* ------------------------------------------------------------------- state
VARIABLES
    running,        \* STTEngine::running_
    paused,         \* STTEngine::paused_
    config_,        \* STTEngine::config_ (vad_config, model_config.model_path)
    whisper_,       \* STTEngine::whisper_
    vad_,           \* STTEngine::vad_
    speech_buffer_, \* STTEngine::speech_buffer_
    in_speech_,     \* STTEngine::in_speech_
    audio_queue_,   \* STTEngine::audio_queue_
    workerPc,       \* processing thread: "wait", "process", "exited"
    workerChunk,    \* the chunk the processing thread took
    asrLog,         \* history: the calls of the ASR back end: chunk, text returned, emitted
    vadLog,         \* history: the calls made on a VAD driven directly, and the last one
    call,           \* history: the last call made directly on a function: name, input, output
    metrics_,       \* STTEngine::metrics_ (processed_samples, transcriptions_count, avg_latency_ms)
    metrics_mutex_, \* STTEngine::metrics_mutex_: "free" or the thread that holds it
    current_config, \* main(): the JSON snapshot of the live configuration
    stt_config,     \* main(): the STTEngine::Config the command handler fills and applies
    config_file,    \* the configuration file at config_path: whether it exists, its JSON
    feedPc,         \* audio thread: "idle", "process" (past the entry check of feed_audio)
    curFrame,       \* the frame the audio thread is inside feed_audio with
    fed,            \* history: the frames handed to feed_audio, with paused_ at entry
    events,         \* history: the results handed to transcription_callback_
    ctlPc,          \* the thread running a command: "idle", "join" (inside stop())
    ctlArg,         \* set_model's argument and was_running
    lastCmd,        \* history: the last command and the result the handler returned
    ncmds,          \* commands issued so far
    lastEnd         \* history: the last SPEECH_ENDING -> SILENCE callback

VARIABLES
    shutdown_requested, \* Server::shutdown_requested_
    srvRunning,         \* Server::running_
    acceptPc,           \* accept thread: "accept", "store", "done"
    pending,            \* the ClientInfo the accept thread has built and not yet stored
    next_client_id,     \* Impl::next_client_id
    clients,            \* Impl::clients: fd -> [id, subscribed, joinable]
    clients_mutex,      \* Impl::clients_mutex: "free" or "main" (held across steps by stop())
    sock,               \* per fd: "free", "open", "peer_closed"
    connId,             \* per fd: the id of the connection that owns the descriptor, 0 if none
    hpc,                \* per fd: handler thread: "none", "loop", "recv", "process", "cleanup", "close"
    hmsg,               \* per fd: the message the handler thread received
    inbox,              \* per fd: history: the messages the client of the connection received
    nsent,              \* per fd: messages of the client the handler thread has received
    handled,            \* per fd: history: the messages process_message has returned for
    crashed,            \* std::terminate was called
    stopPc,             \* main thread: "running", "engine_stopped", "join_accept", "lock",
                        \*   "iterate", "join", "done"
    stopTodo,           \* stop(): the entries of the map the loop has not visited
    stopFd,             \* stop(): the entry whose handler thread is being joined
    bcastLog,           \* history: per broadcast, the entries of the map when it ran
    protoErrors,        \* history: protocol errors received so far
    rxLog,              \* per fd: history: the frames receive_message read: length, dispatched
    wire,               \* per fd: what send() has put on the socket: <<message id, part>>
    bcast               \* the thread inside a broadcast: position, message, entries to visit

serverVars == <<shutdown_requested, srvRunning, acceptPc, pending, next_client_id, clients,
                clients_mutex, sock, connId, hpc, hmsg, inbox, nsent, handled,
                crashed, stopPc, stopTodo, stopFd, bcastLog, protoErrors, rxLog, wire, bcast>>

engineVars == <<running, paused, config_, whisper_, vad_, speech_buffer_, in_speech_,
                audio_queue_, workerPc, workerChunk, asrLog, vadLog, call, metrics_, metrics_mutex_,
                   current_config, stt_config, config_file, feedPc, curFrame, fed, events,
                ctlPc, ctlArg, lastCmd, ncmds, lastEnd>>

NoFrame == [id |-> 0, n |-> 0, rms |-> 0]
NoChunk == [samples |-> <<>>]
NoCmd == [action |-> "none"]
NoEnd == [seen |-> FALSE]
NoMsg == [type |-> "NONE"]
NoPending == [fd |-> 0]
NoVad == [state |-> "NONE"]
\* STTEngine::Metrics as constructed
NoMetrics == [avg_latency_ms |-> 0, processed_samples |-> 0, transcriptions_count |-> 0]

\* no file at config_path
NoFile == [exists |-> FALSE]

\* the socket path and the channel count the daemon runs with
SocketPath == "/tmp/rt-stt.sock"
CaptureChannelCount == 1

\* nlohmann::json values: a record whose one field names the type and holds the value
JsonNumber(n) == [number |-> n]
JsonBoolean(b) == [boolean |-> b]
JsonString(str) == [string |-> str]

\* nlohmann::json::type of a value
JsonType(v) == CHOOSE t \in DOMAIN v : TRUE

\* the value held, whatever its type
JsonValue(v) == v[JsonType(v)]

\* the fields of VADConfig that are bool
BooleanFields == {"use_adaptive_threshold"}

\* the "vad_config" object of current_config: the fields of VADConfig but sample_rate
VadJson(c) ==
    [k \in DOMAIN c \ {"sample_rate"} |->
        IF k \in BooleanFields THEN JsonBoolean(c[k]) ELSE JsonNumber(c[k])]

\* current_config as main() builds it from the configuration it starts with
JsonOf(model_path, vad_config) ==
    [model_config |-> [model_path |-> JsonString(model_path)],
     vad_config |-> VadJson(vad_config),
     audio_capture_config |-> [channels |-> JsonNumber(CaptureChannelCount)],
     ipc_socket_path |-> JsonString(SocketPath)]

NoCall == [fn |-> "none", input |-> <<>>, output |-> <<>>]
NoBroadcast == [pc |-> "idle"]
NoVadLog == [n |-> 0, op |-> "none", ops |-> 0, constant |-> TRUE, energy |-> 0,
             below |-> FALSE, before |-> NoVad, frame |-> NoFrame, notified |-> <<>>]

vars == <<engineVars, serverVars>>

FDs == 1..MaxFd

\* the smallest element of a non-empty set of descriptors
Lowest(S) == CHOOSE x \in S : \A y \in S : x <= y

\* ------------------------------------------------ IPC server: messages
\* Message::Type
MsgTypes == {"COMMAND", "SUBSCRIBE", "UNSUBSCRIBE", "TRANSCRIPTION", "STATUS", "ERROR",
             "ACKNOWLEDGMENT"}

\* The actions clients ask for in the server specification; "bogus" is not a defined action.
Actions == {"get_status", "bogus"}
DefinedActions == {"pause", "resume", "get_status", "get_config", "set_config",
                   "set_language", "set_model", "set_vad_sensitivity", "get_metrics"}

\* What a client may write as its k-th message: commands, a command whose data is an
\* array, subscribe, unsubscribe, and bytes that are no JSON message with an integer type.
\* the length prefix of the frames of ordinary messages
SmallLength == 64

ClientMsgs(k) ==
    {[type |-> "COMMAND", id |-> k, data |-> [kind |-> "object", action |-> a],
      length |-> SmallLength] : a \in Actions}
    \cup {[type |-> "COMMAND", id |-> k, data |-> [kind |-> "array"], length |-> SmallLength],
          [type |-> "SUBSCRIBE", id |-> k, data |-> [kind |-> "null"], length |-> SmallLength],
          [type |-> "UNSUBSCRIBE", id |-> k, data |-> [kind |-> "null"], length |-> SmallLength],
          [type |-> "INVALID", id |-> k, data |-> [kind |-> "null"], length |-> SmallLength]}

\* nlohmann::json::is_object for the data of a message
IsObject(data) == data.kind = "object"

\* send_message succeeds when the descriptor is a connected socket whose peer is alive
SendOk(fd) == sock[fd] = "open"

\* send_message: the inboxes after writing msg to fd
send_message(ib, fd, msg) == IF SendOk(fd) THEN [ib EXCEPT ![fd] = Append(@, msg)] ELSE ib

\* a broadcast that does not look at the flag
WantsAlways(client) == TRUE

\* "if (client->subscribed_to_transcriptions)"
WantsTranscriptions(client) == client.subscribed

\* a broadcast loop that stops at the first send that fails
RECURSIVE BroadcastLoopAborting(_, _, _)
BroadcastLoopAborting(todo, msg, ib) ==
    IF todo = {} THEN ib
    ELSE LET fd == Lowest(todo)
         IN IF WantsTranscriptions(clients[fd]) /\ ~SendOk(fd) THEN ib
            ELSE BroadcastLoopAborting(todo \ {fd}, msg,
                                       IF WantsTranscriptions(clients[fd])
                                       THEN send_message(ib, fd, msg)
                                       ELSE ib)

\* the loop of broadcast_transcription_full over the map, in key order
RECURSIVE BroadcastLoop(_, _, _)
BroadcastLoop(todo, msg, ib) ==
    IF todo = {} THEN ib
    ELSE LET fd == Lowest(todo)
         IN BroadcastLoop(todo \ {fd}, msg,
                          IF WantsTranscriptions(clients[fd]) THEN send_message(ib, fd, msg)
                          ELSE ib)

\* a broadcast that writes the event to every subscriber twice
BroadcastTwice(data) ==
    LET msg == [type |-> "TRANSCRIPTION", id |-> Len(bcastLog) + 1, data |-> data]
    IN BroadcastLoop(DOMAIN clients, msg, BroadcastLoop(DOMAIN clients, msg, inbox))

\* Server::broadcast_transcription_full; msg.id, the clock reading, is the number of the
\* broadcast
broadcast_transcription_full(data) ==
    BroadcastLoop(DOMAIN clients,
                  [type |-> "TRANSCRIPTION", id |-> Len(bcastLog) + 1, data |-> data], inbox)

\* the entries of the map as a broadcast finds them: the descriptor, the id stored, the
\* connection that owns the descriptor, the flag, and whether the descriptor is a
\* connected socket with a live peer
Snapshot ==
    {[fd |-> fd, id |-> clients[fd].id, conn |-> connId[fd],
      subscribed |-> clients[fd].subscribed, open |-> sock[fd] = "open"] : fd \in DOMAIN clients}

\* the transcription callback main() installs: broadcast a result with a non-empty text
TranscriptionCallback(result) ==
    /\ events' = Append(events, result)
    /\ IF result.text # <<>>
       THEN /\ inbox' = broadcast_transcription_full([text |-> result.text,
                                                      is_final |-> result.is_final])
            /\ bcastLog' = Append(bcastLog, Snapshot)
       ELSE UNCHANGED <<inbox, bcastLog>>

\* STTEngine::pause, STTEngine::resume: paused_ after the command
PausedAfter(action) ==
    IF action = "pause" THEN TRUE ELSE IF action = "resume" THEN FALSE ELSE paused

\* the command handler main() installs, for the commands that take one step: the
\* result it returns (an unknown action throws inside its own try and is caught there)
CommandResult(action) ==
    CASE action = "pause" -> [status |-> "paused", listening |-> FALSE]
      [] action = "resume" -> [status |-> "listening", listening |-> TRUE]
      [] action = "get_status" ->
            [listening |-> running, model |-> config_.model_path,
             clients |-> Cardinality(DOMAIN clients)]
      [] OTHER -> [error |-> <<"Unknown action: ", action>>, success |-> FALSE]

\* whether the command handler lets an exception escape to process_message
CommandThrows(action) == FALSE

\* process_message, COMMAND: the reply
CommandReply(msg) ==
    IF CommandThrows(msg.data.action)
    THEN [type |-> "ERROR", id |-> msg.id,
          data |-> [message |-> CommandResult(msg.data.action).error]]
    ELSE [type |-> "ACKNOWLEDGMENT", id |-> msg.id,
          data |-> [success |-> TRUE, result |-> CommandResult(msg.data.action)]]

\* ------------------------------------------------------------ STT engine
\* the VAD state callback installed by STTEngine::initialize:
\* the speech buffer, the queue and whether a chunk was pushed
StateCallback(old_state, new_state, sb, queue, pre_speech, is_paused) ==
    LET sb1 == IF old_state = "SILENCE" /\ new_state = "SPEECH_MAYBE" THEN <<>> ELSE sb
        sb2 == IF old_state = "SPEECH_MAYBE" /\ new_state = "SPEECH" /\ pre_speech # <<>>
               THEN pre_speech \o sb1
               ELSE sb1
    IN IF old_state = "SPEECH_ENDING" /\ new_state = "SILENCE"
       THEN IF sb2 # <<>> /\ Size(sb2) > MinSamples /\ ~is_paused
            THEN [sb |-> <<>>, queue |-> Append(queue, [samples |-> sb2]), pushed |-> TRUE]
            ELSE [sb |-> <<>>, queue |-> queue, pushed |-> FALSE]
       ELSE [sb |-> sb2, queue |-> queue, pushed |-> FALSE]

\* feed_audio with an entry check that looks at running_ only
FeedAcceptsIgnoringPause == running

\* the entry check of feed_audio: the frame is dropped unless running and not paused
FeedAccepts == running /\ ~paused

\* feed_audio, entry: "if (!running_.load() || paused_.load()) return;"
FeedEnter(rms) ==
    /\ feedPc = "idle"
    /\ Len(fed) < MaxFrames
    /\ LET frame == [id |-> Len(fed) + 1, n |-> FrameMs * (SampleRate \div 1000), rms |-> rms]
       IN /\ fed' = Append(fed, [rms |-> rms, paused |-> paused, accepted |-> FeedAccepts])
          /\ IF FeedAccepts
             THEN feedPc' = "process" /\ curFrame' = frame
             ELSE UNCHANGED <<feedPc, curFrame>>
    /\ UNCHANGED <<running, paused, config_, whisper_, vad_, speech_buffer_, in_speech_,
                   audio_queue_, workerPc, workerChunk, asrLog, vadLog, call, metrics_, metrics_mutex_,
                   current_config, stt_config, config_file, events, ctlPc, ctlArg, lastCmd,
                   ncmds, lastEnd>>
    /\ UNCHANGED serverVars

\* feed_audio, "metrics_.processed_samples += n_samples;"
CountSamples(m, frame) == [m EXCEPT !.processed_samples = @ + frame.n]

\* feed_audio, the rest: VAD, state callback, speech buffer, and then the sample
\* counter, either within the same step (next = "idle") or as a step of its own
FeedBody(next) ==
    /\ feedPc = "process"
    /\ LET vad_disabled == config_.vad_config.energy_threshold = 0
           v == process(vad_, curFrame)
           cb == IF v.state # vad_.state
                 THEN StateCallback(vad_.state, v.state, speech_buffer_, audio_queue_,
                                    v.audio_buffer, paused)
                 ELSE [sb |-> speech_buffer_, queue |-> audio_queue_, pushed |-> FALSE]
           vad_state == IF vad_disabled THEN "SPEECH" ELSE v.state
       IN /\ vad_' = v
          /\ audio_queue_' = cb.queue
          /\ IF vad_state \in {"SPEECH", "SPEECH_ENDING", "SPEECH_MAYBE"}
             THEN speech_buffer_' = cb.sb \o FrameChunk(curFrame) /\ in_speech_' = TRUE
             ELSE speech_buffer_' = cb.sb /\ in_speech_' = FALSE
          /\ lastEnd' = IF vad_.state = "SPEECH_ENDING" /\ v.state = "SILENCE"
                        THEN [seen |-> TRUE,
                              speech_frames |-> vad_.speech_frames,
                              min_frames |-> vad_.config.min_speech_ms * vad_.frames_per_ms,
                              frame_len |-> curFrame.n,
                              paused |-> paused,
                              pushed |-> cb.pushed]
                        ELSE lastEnd
    /\ feedPc' = next
    /\ IF next = "idle"
       THEN curFrame' = NoFrame /\ metrics_' = CountSamples(metrics_, curFrame)
       ELSE UNCHANGED <<curFrame, metrics_>>
    /\ UNCHANGED <<running, paused, config_, whisper_, workerPc, workerChunk, asrLog, vadLog,
                   call, metrics_mutex_, current_config, stt_config, config_file, fed, events,
                   ctlPc, ctlArg, lastCmd, ncmds>>
    /\ UNCHANGED serverVars

\* feed_audio from the VAD to its return, as one step
FeedProcess == FeedBody("idle")

\* Config::max_queue_size as the daemon is configured in the model (the default is 100)
QueueSizes == {1}

\* a worker that takes the newest chunk of the queue
back(queue) == queue[Len(queue)]

\* std::queue::front and std::queue::pop of audio_queue_
front(queue) == Head(queue)
pop(queue) == Tail(queue)

\* processing_loop: the predicate of the wait holds, running, not paused: pop the front
WorkerTake ==
    /\ workerPc = "wait"
    /\ running /\ ~paused
    /\ audio_queue_ # <<>>
    /\ workerChunk' = front(audio_queue_)
    /\ audio_queue_' = pop(audio_queue_)
    /\ UNCHANGED <<asrLog, vadLog, call, metrics_, metrics_mutex_, current_config, stt_config, config_file>>
    /\ workerPc' = "process"
    /\ UNCHANGED <<running, paused, config_, whisper_, vad_, speech_buffer_, in_speech_,
                   feedPc, curFrame, fed, events, ctlPc, ctlArg, lastCmd, ncmds, lastEnd>>
    /\ UNCHANGED serverVars

\* a wrapper that invokes the callback whatever the text
EmitsAlways(w, samples, raw) == TRUE

\* WhisperWrapper::process_stream: whether the callback is invoked for this text
StreamEmits(w, samples, raw) == w.ctx # NullCtx /\ Size(samples) # 0 /\ Accepted(raw)

\* the result callback of process_audio_chunk, under metrics_mutex_:
\* "metrics_.transcriptions_count++" (the latency average is a wall-clock
\* measurement and is left at its initial value)
CountTranscription(m) == [m EXCEPT !.transcriptions_count = @ + 1]

\* process_audio_chunk: process_stream, handle_transcription, transcription_callback_,
\* and the metrics update made with metrics_mutex_ held
WorkerProcess(raw) ==
    /\ workerPc = "process"
    /\ clients_mutex = "free"
    /\ IF StreamEmits(whisper_, workerChunk.samples, raw)
       THEN TranscriptionCallback([samples |-> workerChunk.samples,
                                   text |-> Cleaned(raw),
                                   is_final |-> TRUE,
                                   model |-> whisper_.ctx])
       ELSE UNCHANGED <<events, inbox, bcastLog>>
    /\ asrLog' = Append(asrLog, [samples |-> workerChunk.samples, raw |-> raw,
                                  emitted |-> StreamEmits(whisper_, workerChunk.samples, raw)])
    /\ metrics_mutex_ = "free"
    /\ metrics_' = IF StreamEmits(whisper_, workerChunk.samples, raw)
                   THEN CountTranscription(metrics_)
                   ELSE metrics_
    /\ workerPc' = "wait"
    /\ workerChunk' = NoChunk
    /\ UNCHANGED <<running, paused, config_, whisper_, vad_, speech_buffer_, in_speech_,
                   audio_queue_, vadLog, call, metrics_mutex_, current_config, stt_config,
                   config_file, feedPc, curFrame, fed, ctlPc, ctlArg, lastCmd, ncmds,
                   lastEnd>>
    /\ UNCHANGED <<shutdown_requested, srvRunning, acceptPc, pending, next_client_id, clients,
                   clients_mutex, sock, connId, hpc, hmsg, nsent, handled,
                   crashed, stopPc, stopTodo, stopFd, protoErrors, rxLog, wire, bcast>>

\* processing_loop: "while (running_.load())" / "if (!running_.load()) break;"
WorkerExit ==
    /\ workerPc = "wait"
    /\ ~running
    /\ workerPc' = "exited"
    /\ UNCHANGED <<running, paused, config_, whisper_, vad_, speech_buffer_, in_speech_,
                   audio_queue_, workerChunk, asrLog, vadLog, call, metrics_, metrics_mutex_,
                   current_config, stt_config, config_file, feedPc, curFrame, fed, events, ctlPc, ctlArg,
                   lastCmd, ncmds, lastEnd>>
    /\ UNCHANGED serverVars

\* STTEngine::clear_buffers: <<speech_buffer_, in_speech_, audio_queue_, vad_>>
clear_buffers == <<(<<>>), FALSE, (<<>>), reset(vad_)>>

\* ------------------------------------ commands run on the control side
\* a command that takes one step (pause, resume), run by a connection's handler thread
Command(action) ==
    /\ ctlPc = "idle"
    /\ ncmds < MaxCmds
    /\ paused' = PausedAfter(action)
    /\ lastCmd' = [action |-> action, result |-> CommandResult(action)]
    /\ ncmds' = ncmds + 1
    /\ UNCHANGED <<running, config_, whisper_, vad_, speech_buffer_, in_speech_, audio_queue_,
                   workerPc, workerChunk, asrLog, vadLog, call, metrics_, metrics_mutex_,
                   current_config, stt_config, config_file, feedPc, curFrame, fed, events, ctlPc, ctlArg,
                   lastEnd>>
    /\ UNCHANGED serverVars

\* the commands set_config (with a vad_config) and set_vad_sensitivity, run by a
\* connection's handler thread: STTEngine::update_vad_config, applied at once
SetVadConfig(config) ==
    /\ ctlPc = "idle"
    /\ ncmds < MaxCmds
    /\ vad_' = update_config(vad_, config)
    /\ config_' = [config_ EXCEPT !.vad_config = config]
    /\ stt_config' = [stt_config EXCEPT !.vad_config = config]
    /\ current_config' = [current_config EXCEPT !.vad_config = VadJson(config)]
    /\ lastCmd' = [action |-> "set_config", result |-> [vad_updated |-> TRUE]]
    /\ ncmds' = ncmds + 1
    /\ UNCHANGED <<running, paused, whisper_, speech_buffer_, in_speech_, audio_queue_,
                   workerPc, workerChunk, asrLog, vadLog, call, metrics_, metrics_mutex_,
                   config_file, feedPc, curFrame, fed, events,
                   ctlPc, ctlArg, lastEnd>>
    /\ UNCHANGED serverVars

\* set_model(path), up to the join inside stop(): "running_ = false; notify_all()"
SetModelBegin(path) ==
    /\ ctlPc = "idle"
    /\ ncmds < MaxCmds
    /\ ctlArg' = [model |-> path, was_running |-> running]
    /\ running' = FALSE
    /\ ctlPc' = "join"
    /\ ncmds' = ncmds + 1
    /\ UNCHANGED <<paused, config_, whisper_, vad_, speech_buffer_, in_speech_, audio_queue_,
                   workerPc, workerChunk, asrLog, vadLog, call, metrics_, metrics_mutex_,
                   current_config, stt_config, config_file, feedPc, curFrame, fed, events, lastCmd, lastEnd>>
    /\ UNCHANGED serverVars

\* set_model(path), from the join on: clear_buffers, the new wrapper, initialize, start();
\* the command handler catches the exception of a failed load
SetModelFinish ==
    /\ ctlPc = "join"
    /\ ctlArg.was_running => workerPc = "exited"
    /\ LET ok == initialize(NewWhisper, ctlArg.model)[1]
           restart == ok /\ ctlArg.was_running
       IN /\ whisper_' = initialize(NewWhisper, ctlArg.model)[2]
          /\ config_' = [config_ EXCEPT !.model_path = ctlArg.model]
          /\ IF ctlArg.was_running
             THEN /\ speech_buffer_' = clear_buffers[1]
                  /\ in_speech_' = clear_buffers[2]
                  /\ audio_queue_' = clear_buffers[3]
                  /\ vad_' = clear_buffers[4]
             ELSE UNCHANGED <<speech_buffer_, in_speech_, audio_queue_, vad_>>
          /\ running' = restart
          /\ paused' = IF restart THEN FALSE ELSE paused
          /\ workerPc' = IF restart THEN "wait" ELSE workerPc
          /\ lastCmd' = [action |-> "set_model",
                         prior |-> whisper_.ctx,
                         was_running |-> ctlArg.was_running,
                         result |-> IF ok THEN [model |-> ctlArg.model]
                                    ELSE [error |-> <<"Failed to load model: ", ctlArg.model>>,
                                          success |-> FALSE]]
    /\ ctlPc' = "idle"
    /\ ctlArg' = NoCmd
    /\ UNCHANGED <<workerChunk, asrLog, vadLog, call, metrics_, metrics_mutex_,
                   current_config, stt_config, config_file, feedPc, curFrame, fed, events, ncmds, lastEnd>>
    /\ UNCHANGED serverVars

\* ------------------------------------------------------------- IPC server
\* accept_connections: accept() returns a connection; the ClientInfo is built and the
\* handler thread started, before the entry is stored
AcceptConn ==
    /\ acceptPc = "accept"
    /\ ~shutdown_requested
    /\ ~crashed
    /\ next_client_id <= MaxAccepts
    /\ \E f \in FDs : sock[f] = "free"
    /\ LET fd == Lowest({f \in FDs : sock[f] = "free"})
       IN /\ sock' = [sock EXCEPT ![fd] = "open"]
          /\ connId' = [connId EXCEPT ![fd] = next_client_id]
          /\ inbox' = [inbox EXCEPT ![fd] = <<>>]
          /\ nsent' = [nsent EXCEPT ![fd] = 0]
          /\ handled' = [handled EXCEPT ![fd] = <<>>]
          /\ hpc' = [hpc EXCEPT ![fd] = "loop"]
          /\ pending' = [fd |-> fd, id |-> next_client_id, subscribed |-> TRUE]
    /\ next_client_id' = next_client_id + 1
    /\ acceptPc' = "store"
    /\ UNCHANGED <<shutdown_requested, srvRunning, clients, clients_mutex, hmsg, crashed,
                   stopPc, stopTodo, stopFd, bcastLog, protoErrors, rxLog, wire, bcast>>
    /\ UNCHANGED engineVars

\* accept_connections: "impl_->clients[client_fd] = std::move(client)" under the mutex.
\* An entry already stored under the descriptor is destroyed with its joinable thread.
AcceptStore ==
    /\ acceptPc = "store"
    /\ clients_mutex = "free"
    /\ ~crashed
    /\ IF pending.fd \in DOMAIN clients
       THEN crashed' = TRUE /\ UNCHANGED clients
       ELSE /\ clients' = [f \in DOMAIN clients \cup {pending.fd} |->
                             IF f = pending.fd
                             THEN [id |-> pending.id, subscribed |-> pending.subscribed]
                             ELSE clients[f]]
            /\ UNCHANGED crashed
    /\ acceptPc' = "accept"
    /\ pending' = NoPending
    /\ UNCHANGED <<shutdown_requested, srvRunning, next_client_id, clients_mutex, sock, connId,
                   hpc, hmsg, inbox, nsent, handled, stopPc, stopTodo, stopFd,
                   bcastLog, protoErrors, rxLog, wire, bcast>>
    /\ UNCHANGED engineVars

\* accept_connections: accept() fails after ::shutdown of the listening socket
AcceptExit ==
    /\ acceptPc = "accept"
    /\ shutdown_requested
    /\ ~crashed
    /\ acceptPc' = "done"
    /\ UNCHANGED <<shutdown_requested, srvRunning, pending, next_client_id, clients,
                   clients_mutex, sock, connId, hpc, hmsg, inbox, nsent, handled,
                   crashed, stopPc, stopTodo, stopFd, bcastLog, protoErrors, rxLog, wire, bcast>>
    /\ UNCHANGED engineVars

\* a client closes its end, or is killed
ClientClose(fd) ==
    /\ sock[fd] = "open"
    /\ ~crashed
    /\ sock' = [sock EXCEPT ![fd] = "peer_closed"]
    /\ UNCHANGED <<shutdown_requested, srvRunning, acceptPc, pending, next_client_id, clients,
                   clients_mutex, connId, hpc, hmsg, inbox, nsent, handled, crashed,
                   stopPc, stopTodo, stopFd, bcastLog, protoErrors, rxLog, wire, bcast>>
    /\ UNCHANGED engineVars

\* handle_client: "while (!shutdown_requested_.load())"
HandlerLoop(fd) ==
    /\ hpc[fd] = "loop"
    /\ ~crashed
    /\ hpc' = [hpc EXCEPT ![fd] = IF shutdown_requested THEN "cleanup" ELSE "recv"]
    /\ UNCHANGED <<shutdown_requested, srvRunning, acceptPc, pending, next_client_id, clients,
                   clients_mutex, sock, connId, hmsg, inbox, nsent, handled, crashed,
                   stopPc, stopTodo, stopFd, bcastLog, protoErrors, rxLog, wire, bcast>>
    /\ UNCHANGED engineVars

\* receive_message returns true for a JSON message with an integer type
Parses(m) == m.type # "INVALID"

\* the largest length prefix receive_message accepts
MaxMessageLength == 1024 * 1024

\* a length check that also refuses a frame of exactly the largest length
TooLargeOrEqual(length) == length >= MaxMessageLength

\* receive_message: "if (length > 1024 * 1024)"
TooLarge(length) == length > MaxMessageLength

\* handle_client: receive_message returns the nsent[fd]+1-th message the client wrote:
\* a JSON message with an integer type goes to process_message, anything else ends the loop
receive_message(fd, m) ==
    /\ hpc[fd] = "recv"
    /\ ~crashed
    /\ sock[fd] = "open"
    /\ nsent' = [nsent EXCEPT ![fd] = @ + 1]
    /\ IF ~TooLarge(m.length) /\ Parses(m)
       THEN /\ hpc' = [hpc EXCEPT ![fd] = "process"]
            /\ hmsg' = [hmsg EXCEPT ![fd] = m]
            /\ UNCHANGED protoErrors
       ELSE /\ hpc' = [hpc EXCEPT ![fd] = "cleanup"]
            /\ protoErrors' = protoErrors + 1
            /\ UNCHANGED hmsg
    /\ rxLog' = [rxLog EXCEPT ![fd] = Append(@, [length |-> m.length, type |-> m.type,
                                                 dispatched |-> hpc'[fd] = "process"])]
    /\ UNCHANGED <<wire, bcast>>
    /\ UNCHANGED <<shutdown_requested, srvRunning, acceptPc, pending, next_client_id, clients,
                   clients_mutex, sock, connId, inbox, handled, crashed, stopPc, stopTodo,
                   stopFd, bcastLog>>
    /\ UNCHANGED engineVars

\* receive_message for the messages of a client that sends any kind of message
HandlerRecv(fd, m) ==
    /\ nsent[fd] < MaxMsgs
    /\ m \in ClientMsgs(nsent[fd] + 1)
    /\ receive_message(fd, m)

\* What a client that only changes its subscription may write as its k-th message.
SubscriptionMsgs(k) == {m \in ClientMsgs(k) : m.type \in {"SUBSCRIBE", "UNSUBSCRIBE"}}

\* receive_message for the messages of a client that only changes its subscription
SubscriberRecv(fd, m) ==
    /\ nsent[fd] < MaxSubMsgs
    /\ m \in SubscriptionMsgs(nsent[fd] + 1)
    /\ receive_message(fd, m)

\* The length prefixes of the frames a client sends: ordinary, the largest accepted, one more.
FrameLengths == {SmallLength, MaxMessageLength, MaxMessageLength + 1}

\* What a client may write as its k-th frame when it chooses the length prefix.
FramedMsgs(k) ==
    {[m EXCEPT !.length = l] :
        m \in {c \in ClientMsgs(k) : c.type \in {"SUBSCRIBE", "INVALID"}},
        l \in FrameLengths}

\* receive_message for the frames of a client that chooses the length prefix
FramedRecv(fd, m) ==
    /\ nsent[fd] < MaxFramed
    /\ m \in FramedMsgs(nsent[fd] + 1)
    /\ receive_message(fd, m)

\* handle_client: receive_message returns false: end of stream or a closed descriptor
HandlerRecvFail(fd) ==
    /\ hpc[fd] = "recv"
    /\ ~crashed
    /\ sock[fd] # "open"
    /\ hpc' = [hpc EXCEPT ![fd] = "cleanup"]
    /\ UNCHANGED <<shutdown_requested, srvRunning, acceptPc, pending, next_client_id, clients,
                   clients_mutex, sock, connId, hmsg, inbox, nsent, handled, crashed, stopPc,
                   stopTodo, stopFd, bcastLog, protoErrors, rxLog, wire, bcast>>
    /\ UNCHANGED engineVars

\* what process_message has returned for: the message and whether the client was there
Handled(fd, msg) == [id |-> msg.id, type |-> msg.type, data |-> msg.data, live |-> SendOk(fd)]

\* process_message, COMMAND with an object as data
ProcessCommand(fd) ==
    /\ hpc[fd] = "process"
    /\ ~crashed
    /\ hmsg[fd].type = "COMMAND"
    /\ IsObject(hmsg[fd].data)
    /\ hmsg[fd].data.action = "get_status" => clients_mutex = "free"
    /\ paused' = PausedAfter(hmsg[fd].data.action)
    /\ inbox' = send_message(inbox, fd, CommandReply(hmsg[fd]))
    /\ handled' = [handled EXCEPT ![fd] = Append(@, Handled(fd, hmsg[fd]))]
    /\ hpc' = [hpc EXCEPT ![fd] = "loop"]
    /\ hmsg' = [hmsg EXCEPT ![fd] = NoMsg]
    /\ UNCHANGED <<shutdown_requested, srvRunning, acceptPc, pending, next_client_id, clients,
                   clients_mutex, sock, connId, nsent, crashed, stopPc, stopTodo,
                   stopFd, bcastLog, protoErrors, rxLog, wire, bcast>>
    /\ UNCHANGED <<running, config_, whisper_, vad_, speech_buffer_, in_speech_, audio_queue_,
                   workerPc, workerChunk, asrLog, vadLog, call, metrics_, metrics_mutex_,
                   current_config, stt_config, config_file, feedPc, curFrame, fed, events, ctlPc, ctlArg,
                   lastCmd, ncmds, lastEnd>>

\* process_message, COMMAND whose data is no object: "msg.data.value(...)" throws outside
\* the try block, nothing catches it in the handler thread
ProcessBadCommand(fd) ==
    /\ hpc[fd] = "process"
    /\ ~crashed
    /\ hmsg[fd].type = "COMMAND"
    /\ ~IsObject(hmsg[fd].data)
    /\ crashed' = TRUE
    /\ protoErrors' = protoErrors + 1
    /\ UNCHANGED <<shutdown_requested, srvRunning, acceptPc, pending, next_client_id, clients,
                   clients_mutex, sock, connId, hpc, hmsg, inbox, nsent, handled,
                   stopPc, stopTodo, stopFd, bcastLog, rxLog, wire, bcast>>
    /\ UNCHANGED engineVars

\* process_message, SUBSCRIBE and UNSUBSCRIBE: under the mutex, only for a stored entry
ProcessSubscribe(fd) ==
    /\ hpc[fd] = "process"
    /\ ~crashed
    /\ hmsg[fd].type \in {"SUBSCRIBE", "UNSUBSCRIBE"}
    /\ clients_mutex = "free"
    /\ LET flag == hmsg[fd].type = "SUBSCRIBE"
       IN IF fd \in DOMAIN clients
          THEN /\ clients' = [clients EXCEPT ![fd].subscribed = flag]
               /\ inbox' = send_message(inbox, fd,
                                        [type |-> "ACKNOWLEDGMENT", id |-> hmsg[fd].id,
                                         data |-> [subscribed |-> flag]])
          ELSE UNCHANGED <<clients, inbox>>
    /\ handled' = [handled EXCEPT ![fd] = Append(@, Handled(fd, hmsg[fd]))]
    /\ hpc' = [hpc EXCEPT ![fd] = "loop"]
    /\ hmsg' = [hmsg EXCEPT ![fd] = NoMsg]
    /\ UNCHANGED <<shutdown_requested, srvRunning, acceptPc, pending, next_client_id,
                   clients_mutex, sock, connId, nsent, crashed, stopPc, stopTodo,
                   stopFd, bcastLog, protoErrors, rxLog, wire, bcast>>
    /\ UNCHANGED engineVars

\* the entries cleanup_client leaves in the map
EraseClient(fd) == [f \in DOMAIN clients \ {fd} |-> clients[f]]

\* cleanup_client, under the mutex: detach the thread and erase the entry, if stored
HandlerCleanup(fd) ==
    /\ hpc[fd] = "cleanup"
    /\ ~crashed
    /\ clients_mutex = "free"
    /\ clients' = EraseClient(fd)
    /\ hpc' = [hpc EXCEPT ![fd] = "close"]
    /\ UNCHANGED <<shutdown_requested, srvRunning, acceptPc, pending, next_client_id,
                   clients_mutex, sock, connId, hmsg, inbox, nsent, handled, crashed,
                   stopPc, stopTodo, stopFd, bcastLog, protoErrors, rxLog, wire, bcast>>
    /\ UNCHANGED engineVars

\* cleanup_client: "close(client_fd)" after the lock is released; the thread ends
HandlerClose(fd) ==
    /\ hpc[fd] = "close"
    /\ ~crashed
    /\ sock' = [sock EXCEPT ![fd] = "free"]
    /\ connId' = [connId EXCEPT ![fd] = 0]
    /\ inbox' = [inbox EXCEPT ![fd] = <<>>]
    /\ handled' = [handled EXCEPT ![fd] = <<>>]
    /\ nsent' = [nsent EXCEPT ![fd] = 0]
    /\ hpc' = [hpc EXCEPT ![fd] = "none"]
    /\ rxLog' = [rxLog EXCEPT ![fd] = <<>>]
    /\ wire' = [wire EXCEPT ![fd] = <<>>]
    /\ UNCHANGED <<shutdown_requested, srvRunning, acceptPc, pending, next_client_id, clients,
                   clients_mutex, hmsg, crashed, stopPc, stopTodo, stopFd, bcastLog,
                   protoErrors, bcast>>
    /\ UNCHANGED engineVars

\* The results the worker hands to the callback in the server specification.
Results == {[samples |-> <<>>, text |-> <<"a", "b">>, is_final |-> TRUE, model |-> "small.bin"]}

\* the worker thread hands a result to the transcription callback
WorkerResult(result) ==
    /\ stopPc = "running"
    /\ ~crashed
    /\ clients_mutex = "free"
    /\ Len(bcastLog) < MaxEvents
    /\ TranscriptionCallback(result)
    /\ UNCHANGED <<shutdown_requested, srvRunning, acceptPc, pending, next_client_id, clients,
                   clients_mutex, sock, connId, hpc, hmsg, nsent, handled,
                   crashed, stopPc, stopTodo, stopFd, protoErrors, rxLog, wire, bcast>>
    /\ UNCHANGED <<running, paused, config_, whisper_, vad_, speech_buffer_, in_speech_,
                   audio_queue_, workerPc, workerChunk, asrLog, vadLog, call, metrics_, metrics_mutex_,
                   current_config, stt_config, config_file, feedPc, curFrame, fed, ctlPc, ctlArg,
                   lastCmd, ncmds, lastEnd>>

\* ------------------------------------------------- shutdown (main thread)
\* main: "audio_capture.stop(); stt_engine.stop();" the worker is joined, buffers cleared
StopEngine ==
    /\ stopPc = "running"
    /\ ~crashed
    /\ ctlPc = "idle"
    /\ workerPc \in {"wait", "exited"}
    /\ running' = FALSE
    /\ workerPc' = "exited"
    /\ IF running
       THEN /\ speech_buffer_' = clear_buffers[1]
            /\ in_speech_' = clear_buffers[2]
            /\ audio_queue_' = clear_buffers[3]
            /\ vad_' = clear_buffers[4]
       ELSE UNCHANGED <<speech_buffer_, in_speech_, audio_queue_, vad_>>
    /\ stopPc' = "engine_stopped"
    /\ UNCHANGED <<paused, config_, whisper_, workerChunk, asrLog, vadLog, call, metrics_, metrics_mutex_,
                   current_config, stt_config, config_file, feedPc, curFrame, fed, events,
                   ctlPc, ctlArg, lastCmd, ncmds, lastEnd>>
    /\ UNCHANGED <<shutdown_requested, srvRunning, acceptPc, pending, next_client_id, clients,
                   clients_mutex, sock, connId, hpc, hmsg, inbox, nsent, handled,
                   crashed, stopTodo, stopFd, bcastLog, protoErrors, rxLog, wire, bcast>>

\* Server::stop: "shutdown_requested_ = true; ::shutdown(server_socket, SHUT_RDWR)"
ServerStop ==
    /\ stopPc = "engine_stopped"
    /\ ~crashed
    /\ srvRunning
    /\ shutdown_requested' = TRUE
    /\ stopPc' = "join_accept"
    /\ UNCHANGED <<srvRunning, acceptPc, pending, next_client_id, clients, clients_mutex, sock,
                   connId, hpc, hmsg, inbox, nsent, handled, crashed, stopTodo,
                   stopFd, bcastLog, protoErrors, rxLog, wire, bcast>>
    /\ UNCHANGED engineVars

\* Server::stop: "accept_thread.join()"
StopJoinAccept ==
    /\ stopPc = "join_accept"
    /\ ~crashed
    /\ acceptPc = "done"
    /\ stopPc' = "lock"
    /\ UNCHANGED <<shutdown_requested, srvRunning, acceptPc, pending, next_client_id, clients,
                   clients_mutex, sock, connId, hpc, hmsg, inbox, nsent, handled,
                   crashed, stopTodo, stopFd, bcastLog, protoErrors, rxLog, wire, bcast>>
    /\ UNCHANGED engineVars

\* Server::stop: "std::lock_guard<std::mutex> lock(impl_->clients_mutex)"
StopLock ==
    /\ stopPc = "lock"
    /\ ~crashed
    /\ clients_mutex = "free"
    /\ clients_mutex' = "main"
    /\ stopTodo' = DOMAIN clients
    /\ stopPc' = "iterate"
    /\ UNCHANGED <<shutdown_requested, srvRunning, acceptPc, pending, next_client_id, clients,
                   sock, connId, hpc, hmsg, inbox, nsent, handled, crashed, stopFd,
                   bcastLog, protoErrors, rxLog, wire, bcast>>
    /\ UNCHANGED engineVars

\* Server::stop, loop body: "close(fd)", with the mutex held
StopCloseClient ==
    /\ stopPc = "iterate"
    /\ ~crashed
    /\ stopTodo # {}
    /\ LET fd == Lowest(stopTodo)
       IN /\ sock' = [sock EXCEPT ![fd] = "free"]
          /\ stopFd' = fd
    /\ stopPc' = "join"
    /\ UNCHANGED <<shutdown_requested, srvRunning, acceptPc, pending, next_client_id, clients,
                   clients_mutex, connId, hpc, hmsg, inbox, nsent, handled, crashed, stopTodo,
                   bcastLog, protoErrors, rxLog, wire, bcast>>
    /\ UNCHANGED engineVars

\* the handler thread of the entry stored under fd has ended
ThreadEnded(fd) == hpc[fd] = "none" \/ connId[fd] # clients[fd].id

\* Server::stop, loop body: "client->handler_thread.join()", with the mutex held
StopJoinClient ==
    /\ stopPc = "join"
    /\ ~crashed
    /\ ThreadEnded(stopFd)
    /\ stopTodo' = stopTodo \ {stopFd}
    /\ stopFd' = 0
    /\ stopPc' = "iterate"
    /\ UNCHANGED <<shutdown_requested, srvRunning, acceptPc, pending, next_client_id, clients,
                   clients_mutex, sock, connId, hpc, hmsg, inbox, nsent, handled,
                   crashed, bcastLog, protoErrors, rxLog, wire, bcast>>
    /\ UNCHANGED engineVars

\* Server::stop: "impl_->clients.clear()", the lock released, "running_ = false"
StopFinish ==
    /\ stopPc = "iterate"
    /\ ~crashed
    /\ stopTodo = {}
    /\ clients' = [f \in {} |-> 0]
    /\ clients_mutex' = "free"
    /\ srvRunning' = FALSE
    /\ stopPc' = "done"
    /\ UNCHANGED <<shutdown_requested, acceptPc, pending, next_client_id, sock, connId, hpc,
                   hmsg, inbox, nsent, handled, crashed, stopTodo, stopFd, bcastLog,
                   protoErrors, rxLog, wire, bcast>>
    /\ UNCHANGED engineVars

\* -------------------------------------------------------- VAD driven directly
\* VAD::process on the next frame.  Streams of up to MaxFree frames have any energies; a
\* stream whose frames all have one energy is followed up to MaxConstant frames.
VadProcess(rms) ==
    /\ \/ vadLog.n < MaxFree
       \/ vadLog.constant /\ rms = vadLog.energy /\ vadLog.n < MaxConstant
    /\ LET frame == [id |-> vadLog.n + 1, n |-> FrameMs * (SampleRate \div 1000), rms |-> rms]
           v == process(vad_, frame)
       IN /\ vad_' = v
          /\ vadLog' = [n |-> vadLog.n + 1,
                        op |-> "process",
                        ops |-> vadLog.ops,
                        constant |-> vadLog.constant /\ (vadLog.n = 0 \/ rms = vadLog.energy),
                        energy |-> IF vadLog.n = 0 THEN rms ELSE vadLog.energy,
                        below |-> IF vadLog.n = 0 THEN BelowSpeech(vad_, rms) ELSE vadLog.below,
                        before |-> vad_,
                        frame |-> frame,
                        notified |-> change_state(vad_.state, v.state)]
    /\ UNCHANGED <<running, paused, config_, whisper_, speech_buffer_, in_speech_,
                   audio_queue_, workerPc, workerChunk, asrLog, call, metrics_, metrics_mutex_,
                   current_config, stt_config, config_file, feedPc, curFrame, fed, events,
                   ctlPc, ctlArg, lastCmd, ncmds, lastEnd>>
    /\ UNCHANGED serverVars

\* VAD::update_config
VadUpdateConfig(config) ==
    /\ vadLog.ops < MaxVadOps
    /\ vadLog.n < MaxFree
    /\ vad_' = update_config(vad_, config)
    /\ vadLog' = [vadLog EXCEPT !.op = "update_config", !.ops = @ + 1, !.constant = FALSE,
                                !.before = vad_, !.frame = NoFrame, !.notified = <<>>]
    /\ UNCHANGED <<running, paused, config_, whisper_, speech_buffer_, in_speech_,
                   audio_queue_, workerPc, workerChunk, asrLog, call, metrics_, metrics_mutex_,
                   current_config, stt_config, config_file, feedPc, curFrame, fed, events,
                   ctlPc, ctlArg, lastCmd, ncmds, lastEnd>>
    /\ UNCHANGED serverVars

\* VAD::reset
VadReset ==
    /\ vadLog.ops < MaxVadOps
    /\ vadLog.n < MaxFree
    /\ vad_' = reset(vad_)
    /\ vadLog' = [vadLog EXCEPT !.op = "reset", !.ops = @ + 1, !.constant = FALSE,
                                !.before = vad_, !.frame = NoFrame, !.notified = <<>>]
    /\ UNCHANGED <<running, paused, config_, whisper_, speech_buffer_, in_speech_,
                   audio_queue_, workerPc, workerChunk, asrLog, call, metrics_, metrics_mutex_,
                   current_config, stt_config, config_file, feedPc, curFrame, fed, events,
                   ctlPc, ctlArg, lastCmd, ncmds, lastEnd>>
    /\ UNCHANGED serverVars

\* ------------------------------------------------------------ specifications
\* The daemon after main() has initialised and started everything: the engine running
\* with the model it was configured with, the server accepting, no client connected.
Init ==
    /\ running = TRUE
    /\ paused = FALSE
    /\ \E c \in VadConfigs :
          /\ config_ = [vad_config |-> c, model_path |-> "small.bin",
                        max_queue_size |-> Lowest(QueueSizes)]
          /\ vad_ = VadInit(c)
    /\ whisper_ = initialize(NewWhisper, "small.bin")[2]
    /\ speech_buffer_ = <<>>
    /\ in_speech_ = FALSE
    /\ audio_queue_ = <<>>
    /\ workerPc = "wait"
    /\ workerChunk = NoChunk
    /\ asrLog = <<>>
    /\ vadLog = NoVadLog
    /\ call = NoCall
    /\ metrics_ = NoMetrics
    /\ metrics_mutex_ = "free"
    /\ stt_config = [model_path |-> config_.model_path, vad_config |-> config_.vad_config]
    /\ current_config = JsonOf(config_.model_path, config_.vad_config)
    /\ config_file = NoFile
    /\ feedPc = "idle"
    /\ curFrame = NoFrame
    /\ fed = <<>>
    /\ events = <<>>
    /\ ctlPc = "idle"
    /\ ctlArg = NoCmd
    /\ lastCmd = NoCmd
    /\ ncmds = 0
    /\ lastEnd = NoEnd
    /\ shutdown_requested = FALSE
    /\ srvRunning = TRUE
    /\ acceptPc = "accept"
    /\ pending = NoPending
    /\ next_client_id = 1
    /\ clients = [f \in {} |-> 0]
    /\ clients_mutex = "free"
    /\ sock = [f \in FDs |-> "free"]
    /\ connId = [f \in FDs |-> 0]
    /\ hpc = [f \in FDs |-> "none"]
    /\ hmsg = [f \in FDs |-> NoMsg]
    /\ inbox = [f \in FDs |-> <<>>]
    /\ nsent = [f \in FDs |-> 0]
    /\ handled = [f \in FDs |-> <<>>]
    /\ crashed = FALSE
    /\ stopPc = "running"
    /\ stopTodo = {}
    /\ stopFd = 0
    /\ bcastLog = <<>>
    /\ protoErrors = 0
    /\ rxLog = [f \in FDs |-> <<>>]
    /\ wire = [f \in FDs |-> <<>>]
    /\ bcast = NoBroadcast

\* The audio thread, the worker thread and the commands that reach the engine.
NextEngine ==
    \/ \E rms \in Energies : FeedEnter(rms)
    \/ FeedProcess
    \/ WorkerTake
    \/ \E raw \in RawTexts : WorkerProcess(raw)
    \/ WorkerExit
    \/ \E a \in {"pause", "resume"} : Command(a)
    \/ \E path \in ModelPaths : SetModelBegin(path)
    \/ SetModelFinish

SpecEngine == Init /\ [][NextEngine]_vars

\* the feeding thread and a handler thread that sets the VAD configuration
NextConfig ==
    \/ \E rms \in Energies : FeedEnter(rms)
    \/ FeedProcess
    \/ \E c \in VadConfigs : SetVadConfig(c)

SpecConfig == Init /\ [][NextConfig]_vars

\* the feeding thread and a handler thread that runs pause, resume and get_status
NextStatus ==
    \/ \E rms \in Energies : FeedEnter(rms)
    \/ FeedProcess
    \/ \E a \in {"pause", "resume", "get_status"} : Command(a)

SpecStatus == Init /\ [][NextStatus]_vars

\* ------------------------------------------------------------ engine metrics
\* feed_audio up to the sample counter: the counter is a step of its own
FeedSegment == FeedBody("count")

\* feed_audio, "metrics_.processed_samples += n_samples;": no lock is taken
FeedCount ==
    /\ feedPc = "count"
    /\ metrics_' = CountSamples(metrics_, curFrame)
    /\ feedPc' = "idle"
    /\ curFrame' = NoFrame
    /\ UNCHANGED <<running, paused, config_, whisper_, vad_, speech_buffer_, in_speech_,
                   audio_queue_, workerPc, workerChunk, asrLog, vadLog, call, metrics_mutex_,
                   current_config, stt_config, config_file, fed, events, ctlPc, ctlArg,
                   lastCmd, ncmds, lastEnd>>
    /\ UNCHANGED serverVars

\* get_metrics: "std::lock_guard<std::mutex> lock(metrics_mutex_);"
GetMetricsLock ==
    /\ ctlPc = "idle"
    /\ ncmds < MaxCmds
    /\ metrics_mutex_ = "free"
    /\ metrics_mutex_' = "handler"
    /\ ctlPc' = "copy"
    /\ UNCHANGED <<running, paused, config_, whisper_, vad_, speech_buffer_, in_speech_,
                   audio_queue_, workerPc, workerChunk, asrLog, vadLog, call, metrics_,
                   current_config, stt_config, config_file, feedPc, curFrame, fed, events,
                   ctlArg, lastCmd, ncmds, lastEnd>>
    /\ UNCHANGED serverVars

\* what a copy of processed_samples can hold: the counter, or, while feed_audio is
\* at its unlocked "+=", the value before or after that write
CopiedSamples ==
    IF feedPc = "count"
    THEN {metrics_.processed_samples, CountSamples(metrics_, curFrame).processed_samples}
    ELSE {metrics_.processed_samples}

\* get_metrics: "return metrics_;", the lock released, and the reply of the command
GetMetricsCopy ==
    /\ ctlPc = "copy"
    /\ \E samples \in CopiedSamples :
          lastCmd' = [action |-> "get_metrics",
                      result |-> [avg_latency_ms |-> metrics_.avg_latency_ms,
                                  transcriptions_count |-> metrics_.transcriptions_count],
                      copied |-> [metrics_ EXCEPT !.processed_samples = samples],
                      racing |-> feedPc = "count"]
    /\ metrics_mutex_' = "free"
    /\ ctlPc' = "idle"
    /\ ncmds' = ncmds + 1
    /\ UNCHANGED <<running, paused, config_, whisper_, vad_, speech_buffer_, in_speech_,
                   audio_queue_, workerPc, workerChunk, asrLog, vadLog, call, metrics_,
                   current_config, stt_config, config_file, feedPc, curFrame, fed, events,
                   ctlArg, lastEnd>>
    /\ UNCHANGED serverVars

NextMetrics ==
    \/ \E rms \in Energies : FeedEnter(rms)
    \/ FeedSegment
    \/ FeedCount
    \/ WorkerTake
    \/ \E raw \in RawTexts : WorkerProcess(raw)
    \/ GetMetricsLock
    \/ GetMetricsCopy

SpecMetrics == Init /\ [][NextMetrics]_vars

\* ------------------------------------------- the configuration snapshot
\* The patches a client sends with set_config: two VAD values of the right type,
\* one VAD value of the right type, and a VAD value that is a string where VADConfig
\* holds an int.
ConfigPatches ==
    {[vad_config |-> [energy_threshold |-> JsonNumber(20),
                      min_speech_ms |-> JsonNumber(500)]],
     [vad_config |-> [speech_end_ms |-> JsonNumber(250)]],
     [vad_config |-> [min_speech_ms |-> JsonString("fast")]]}

\* get<bool>() of a value needs a boolean, get<int>() and get<float>() a number or a
\* boolean; anything else throws type_error
Readable(k, v) ==
    IF k \in BooleanFields THEN JsonType(v) = "boolean"
    ELSE JsonType(v) \in {"number", "boolean"}

\* what get<T>() returns for a readable value
Get(k, v) ==
    IF k \in BooleanFields \/ JsonType(v) = "number" THEN JsonValue(v)
    ELSE IF JsonValue(v) THEN 1 ELSE 0

\* a patch every value of which has the type of its field
ValidPatch(patch) == \A k \in DOMAIN patch.vad_config : Readable(k, patch.vad_config[k])

\* What a client may write as its k-th message when it reads and changes the
\* configuration: get_config, and set_config with a patch, saved or not.
ConfigMsgs(k) ==
    {[type |-> "COMMAND", id |-> k, data |-> [kind |-> "object", action |-> "get_config"],
      length |-> SmallLength]}
    \cup {[type |-> "COMMAND", id |-> k,
           data |-> [kind |-> "object", action |-> "set_config",
                     params |-> [config |-> patch, save |-> save]],
           length |-> SmallLength] : patch \in ConfigPatches, save \in BOOLEAN}

\* receive_message for the messages of a client that reads and changes the configuration
ConfigRecv(fd, m) ==
    /\ nsent[fd] < MaxMsgs
    /\ m \in ConfigMsgs(nsent[fd] + 1)
    /\ receive_message(fd, m)

\* the keys of VADConfig in the order std::map iterates over the members of an object
KeyOrder ==
    <<"energy_threshold", "min_speech_ms", "noise_floor_adaptation_rate",
      "pre_speech_buffer_ms", "speech_end_ms", "speech_end_threshold", "speech_start_ms",
      "speech_start_threshold", "use_adaptive_threshold">>

\* the members of an object of a patch, in iteration order
PatchKeys(object) == SelectSeq(KeyOrder, LAMBDA k : k \in DOMAIN object)

\* merge_patch, one member of the "vad_config" object of the patch: the member of the
\* target is replaced, or inserted when the target has none
MergeMember(target, k, v) ==
    [target EXCEPT !.vad_config =
        [j \in DOMAIN target.vad_config \cup {k} |->
            IF j = k THEN v ELSE target.vad_config[j]]]

\* process_message, COMMAND get_config: "result = current_config;", no lock is taken.
\* The last command records which handler threads were inside merge_patch then.
GetConfig(fd) ==
    /\ hpc[fd] = "process"
    /\ ~crashed
    /\ hmsg[fd].type = "COMMAND"
    /\ IsObject(hmsg[fd].data)
    /\ hmsg[fd].data.action = "get_config"
    /\ inbox' = send_message(inbox, fd,
                             [type |-> "ACKNOWLEDGMENT", id |-> hmsg[fd].id,
                              data |-> [success |-> TRUE, result |-> current_config]])
    /\ lastCmd' = [action |-> "get_config", fd |-> fd, result |-> current_config,
                   writers |-> {g \in FDs \ {fd} : hpc[g] = "merging"}]
    /\ handled' = [handled EXCEPT ![fd] = Append(@, Handled(fd, hmsg[fd]))]
    /\ hpc' = [hpc EXCEPT ![fd] = "loop"]
    /\ hmsg' = [hmsg EXCEPT ![fd] = NoMsg]
    /\ UNCHANGED <<shutdown_requested, srvRunning, acceptPc, pending, next_client_id, clients,
                   clients_mutex, sock, connId, nsent, crashed, stopPc, stopTodo,
                   stopFd, bcastLog, protoErrors, rxLog, wire, bcast>>
    /\ UNCHANGED <<running, paused, config_, whisper_, vad_, speech_buffer_, in_speech_,
                   audio_queue_, workerPc, workerChunk, asrLog, vadLog, call, metrics_,
                   metrics_mutex_, current_config, stt_config, config_file, feedPc, curFrame,
                   fed, events, ctlPc, ctlArg, ncmds, lastEnd>>

\* the message a handler thread is working on, with what the thread keeps while inside
\* set_config: the snapshot at entry and the number of members merged
Entered(msg, snapshot) ==
    [type |-> msg.type, id |-> msg.id, data |-> msg.data, length |-> msg.length,
     before |-> snapshot, merged |-> 1]

\* process_message, COMMAND set_config: "current_config.merge_patch(new_config);",
\* one member of the patch per step, no lock is taken
SetConfigMerge(fd) ==
    /\ hpc[fd] \in {"process", "merging"}
    /\ ~crashed
    /\ hmsg[fd].type = "COMMAND"
    /\ IsObject(hmsg[fd].data)
    /\ hmsg[fd].data.action = "set_config"
    /\ LET patch == hmsg[fd].data.params.config.vad_config
           keys == PatchKeys(patch)
           i == IF hpc[fd] = "process" THEN 1 ELSE hmsg[fd].merged + 1
       IN /\ current_config' = MergeMember(current_config, keys[i], patch[keys[i]])
          /\ hmsg' = [hmsg EXCEPT ![fd] = IF hpc[fd] = "process"
                                          THEN Entered(hmsg[fd], current_config)
                                          ELSE [hmsg[fd] EXCEPT !.merged = i]]
          /\ hpc' = [hpc EXCEPT ![fd] = IF i = Len(keys) THEN "apply" ELSE "merging"]
    /\ UNCHANGED <<shutdown_requested, srvRunning, acceptPc, pending, next_client_id, clients,
                   clients_mutex, sock, connId, inbox, nsent, handled, crashed, stopPc,
                   stopTodo, stopFd, bcastLog, protoErrors, rxLog, wire, bcast>>
    /\ UNCHANGED <<running, paused, config_, whisper_, vad_, speech_buffer_, in_speech_,
                   audio_queue_, workerPc, workerChunk, asrLog, vadLog, call, metrics_,
                   metrics_mutex_, stt_config, config_file, feedPc, curFrame, fed, events,
                   ctlPc, ctlArg, lastCmd, ncmds, lastEnd>>

\* the fields of stt_config.vad_config in the order set_config assigns them
ApplyOrder ==
    <<"use_adaptive_threshold", "energy_threshold", "speech_start_ms", "speech_end_ms",
      "min_speech_ms", "pre_speech_buffer_ms", "noise_floor_adaptation_rate",
      "speech_start_threshold", "speech_end_threshold">>

\* the first assignment of set_config whose get<T>() throws, or one past the last
FirstThrow(json) ==
    LET bad == {i \in DOMAIN ApplyOrder :
                   ApplyOrder[i] \notin DOMAIN json \/ ~Readable(ApplyOrder[i], json[ApplyOrder[i]])}
    IN IF bad = {} THEN Len(ApplyOrder) + 1 ELSE Lowest(bad)

\* stt_config.vad_config after the assignments made before the first throw
Assigned(struct, json) ==
    LET done == {ApplyOrder[i] : i \in 1..(FirstThrow(json) - 1)}
    IN [k \in DOMAIN struct |-> IF k \in done THEN Get(k, json[k]) ELSE struct[k]]

\* process_message, COMMAND set_config, after the merge: the assignments to
\* stt_config.vad_config, update_vad_config, the save, and the reply.  A type_error
\* leaves the try block for the catch, which builds the result of a failure.
SetConfigApply(fd) ==
    /\ hpc[fd] = "apply"
    /\ ~crashed
    /\ LET json == current_config.vad_config
           struct == Assigned(stt_config.vad_config, json)
           ok == FirstThrow(json) > Len(ApplyOrder)
           save == hmsg[fd].data.params.save
           result == IF ok
                     THEN [vad_updated |-> TRUE, config_saved |-> save, success |-> TRUE]
                     ELSE [error |-> "type_error", success |-> FALSE]
       IN /\ stt_config' = [stt_config EXCEPT !.vad_config = struct]
          /\ IF ok
             THEN /\ vad_' = update_config(vad_, struct)
                  /\ config_' = [config_ EXCEPT !.vad_config = struct]
                  /\ config_file' = IF save
                                    THEN [exists |-> TRUE, json |-> current_config]
                                    ELSE config_file
             ELSE UNCHANGED <<vad_, config_, config_file>>
          /\ inbox' = send_message(inbox, fd,
                                   [type |-> "ACKNOWLEDGMENT", id |-> hmsg[fd].id,
                                    data |-> [success |-> TRUE, result |-> result]])
          /\ lastCmd' = [action |-> "set_config", fd |-> fd,
                         patch |-> hmsg[fd].data.params.config, result |-> result,
                         before |-> hmsg[fd].before, after |-> current_config]
    /\ handled' = [handled EXCEPT ![fd] = Append(@, Handled(fd, hmsg[fd]))]
    /\ hpc' = [hpc EXCEPT ![fd] = "loop"]
    /\ hmsg' = [hmsg EXCEPT ![fd] = NoMsg]
    /\ UNCHANGED <<shutdown_requested, srvRunning, acceptPc, pending, next_client_id, clients,
                   clients_mutex, sock, connId, nsent, crashed, stopPc, stopTodo,
                   stopFd, bcastLog, protoErrors, rxLog, wire, bcast>>
    /\ UNCHANGED <<running, paused, whisper_, speech_buffer_, in_speech_, audio_queue_,
                   workerPc, workerChunk, asrLog, vadLog, call, metrics_, metrics_mutex_,
                   current_config, feedPc, curFrame, fed, events, ctlPc, ctlArg, ncmds,
                   lastEnd>>

\* VADConfig as constructed, thresholds and rate in hundredths
DefaultVadConfig ==
    [energy_threshold |-> 1, speech_start_threshold |-> 2, speech_end_threshold |-> 1,
     speech_start_ms |-> 200, speech_end_ms |-> 500, min_speech_ms |-> 100,
     pre_speech_buffer_ms |-> 300, use_adaptive_threshold |-> TRUE,
     noise_floor_adaptation_rate |-> 0, sample_rate |-> SampleRate]

\* the defaults main() passes to value() when it reads the "vad" object of a file
FileVadDefaults ==
    [energy_threshold |-> 0, speech_start_threshold |-> 108, speech_end_threshold |-> 85,
     speech_start_ms |-> 150, speech_end_ms |-> 1000, min_speech_ms |-> 500,
     pre_speech_buffer_ms |-> 500, use_adaptive_threshold |-> TRUE,
     noise_floor_adaptation_rate |-> 1, sample_rate |-> SampleRate]

\* nlohmann::json::value(key, default) of an object
value(object, key, default) ==
    IF key \in DOMAIN object THEN JsonValue(object[key]) ELSE default

\* whether an object has the member
contains(object, key) == key \in DOMAIN object

\* main(), the configuration load: the parameters the daemon starts with when the
\* file at config_path is as given.  Only the "stt" and "ipc" members of the file are
\* read; a parameter the file does not give under them keeps the value its struct is
\* constructed with, the model path the empty string.
LoadConfig(file) ==
    IF ~file.exists
    THEN [model_path |-> "models/ggml-small.en.bin", vad_config |-> FileVadDefaults,
          channels |-> CaptureChannelCount, socket_path |-> SocketPath]
    ELSE LET stt == IF contains(file.json, "stt") THEN file.json.stt ELSE [none |-> 0]
         IN [model_path |-> IF contains(stt, "model")
                            THEN value(stt.model, "path", "models/ggml-small.en.bin")
                            ELSE "",
             vad_config |-> IF contains(stt, "vad")
                            THEN [k \in DOMAIN FileVadDefaults |->
                                     IF k = "sample_rate" THEN SampleRate
                                     ELSE value(stt.vad, k, FileVadDefaults[k])]
                            ELSE DefaultVadConfig,
             channels |-> IF contains(stt, "audio")
                          THEN value(stt.audio, "channels", CaptureChannelCount)
                          ELSE CaptureChannelCount,
             socket_path |-> IF contains(file.json, "ipc")
                             THEN value(file.json.ipc, "socket_path", SocketPath)
                             ELSE SocketPath]

\* the model, VAD, audio and socket parameters the daemon runs with
LiveParameters ==
    [model_path |-> stt_config.model_path, vad_config |-> stt_config.vad_config,
     channels |-> CaptureChannelCount, socket_path |-> SocketPath]

NextSnapshot ==
    \/ AcceptConn
    \/ AcceptStore
    \/ \E fd \in FDs : HandlerLoop(fd)
    \/ \E fd \in FDs : \E m \in ConfigMsgs(nsent[fd] + 1) : ConfigRecv(fd, m)
    \/ \E fd \in FDs : GetConfig(fd)
    \/ \E fd \in FDs : SetConfigMerge(fd)
    \/ \E fd \in FDs : SetConfigApply(fd)

SpecSnapshot == Init /\ [][NextSnapshot]_vars

\* ------------------------------------------------------------ text cleanup alone
\* the bytes of the texts whisper_full_get_segment_text returns
TextChars == {" ", "\t", "a", "."}

RECURSIVE TextsOfLength(_)
TextsOfLength(n) ==
    IF n = 0 THEN {<<>>}
    ELSE {Append(t, c) : t \in TextsOfLength(n - 1), c \in TextChars}

SegmentTexts == UNION {TextsOfLength(n) : n \in 0..MaxText}

\* WhisperWrapper::process_stream on an utterance whose segments concatenate to raw:
\* the text after cleanup and trimming, and whether the callback was called with it
ProcessStream(raw) ==
    /\ call' = [fn |-> "process_stream", input |-> raw,
                output |-> [text |-> IF SegmentTrim(raw) = <<>> THEN <<>> ELSE Cleaned(raw),
                            emitted |-> Accepted(raw)]]
    /\ UNCHANGED <<running, paused, config_, whisper_, vad_, speech_buffer_, in_speech_,
                   audio_queue_, workerPc, workerChunk, asrLog, vadLog, metrics_, metrics_mutex_, current_config, stt_config, config_file, feedPc, curFrame, fed,
                   events, ctlPc, ctlArg, lastCmd, ncmds, lastEnd>>
    /\ UNCHANGED serverVars

NextText == \E raw \in SegmentTexts : ProcessStream(raw)

SpecText == Init /\ [][NextText]_vars

\* ------------------------------------------------------------ audio capture
\* Samples are even integers, and a device has one or two channels, so that the mean
\* of the channels of a frame is an integer.
CaptureSamples == {0, 2}
CaptureChannels == {1, 2}

\* a device buffer: frame_count frames of C samples each, frames[f][ch]
RECURSIVE FramesOfCount(_, _)
FramesOfCount(n, C) ==
    IF n = 0 THEN {<<>>}
    ELSE {Append(fs, f) : fs \in FramesOfCount(n - 1, C), f \in [1..C -> CaptureSamples]}

DeviceBuffers ==
    UNION {FramesOfCount(n, C) : n \in 1..MaxCaptureFrames, C \in CaptureChannels}

\* CaptureConfig: force_single_channel and input_channel_index (counted from 0)
CaptureConfigs ==
    {[force_single_channel |-> FALSE, input_channel_index |-> 0]}
      \cup [force_single_channel : {TRUE}, input_channel_index : {0, 1}]

\* the interleaved buffer miniaudio hands to the callback: input[i * channels + ch]
RECURSIVE Interleaved(_)
Interleaved(frames) ==
    IF frames = <<>> THEN <<>> ELSE Head(frames) \o Interleaved(Tail(frames))

RECURSIVE SumOf(_)
SumOf(f) == IF f = <<>> THEN 0 ELSE Head(f) + SumOf(Tail(f))

\* CoreAudioCallback: the samples handed to process_audio_callback; the device renders
\* one buffer per channel (mNumberBuffers = channels)
CoreAudioCallback(frames, config) ==
    LET channels == Len(frames[1])
        idx == IF config.input_channel_index < channels THEN config.input_channel_index ELSE 0
    IN IF config.force_single_channel
       THEN [i \in 1..Len(frames) |-> frames[i][idx + 1]]
       ELSE IF channels = 1
            THEN [i \in 1..Len(frames) |-> frames[i][1]]
            ELSE [i \in 1..Len(frames) |-> SumOf(frames[i]) \div channels]

\* MiniaudioCallback: the samples handed to process_audio_callback, which are the
\* first frame_count floats of the buffer it is given
MiniaudioCallback(frames, config) ==
    LET channels == Len(frames[1])
        frame_count == Len(frames)
        input_buffer == Interleaved(frames)
        idx == IF config.input_channel_index >= channels THEN 0 ELSE config.input_channel_index
    IN IF config.force_single_channel /\ channels > 1
       THEN [i \in 1..frame_count |-> input_buffer[(i - 1) * channels + idx + 1]]
       ELSE SubSeq(input_buffer, 1, frame_count)

\* one capture callback of a back end
CaptureCallback(backend, frames, config) ==
    /\ call' = [fn |-> backend,
                input |-> [frames |-> frames, config |-> config],
                output |-> IF backend = "CoreAudioCallback"
                           THEN CoreAudioCallback(frames, config)
                           ELSE MiniaudioCallback(frames, config)]
    /\ UNCHANGED <<running, paused, config_, whisper_, vad_, speech_buffer_, in_speech_,
                   audio_queue_, workerPc, workerChunk, asrLog, vadLog, metrics_, metrics_mutex_, current_config, stt_config, config_file, feedPc, curFrame, fed,
                   events, ctlPc, ctlArg, lastCmd, ncmds, lastEnd>>
    /\ UNCHANGED serverVars

NextCapture ==
    \E backend \in {"CoreAudioCallback", "MiniaudioCallback"} :
        \E frames \in DeviceBuffers : \E config \in CaptureConfigs :
            CaptureCallback(backend, frames, config)

SpecCapture == Init /\ [][NextCapture]_vars

\* ------------------------------------------- the worker's wait, step by step
\* queue_mutex_ is held by the worker from its lock until it blocks or leaves the
\* scope; a push holds it for the length of its step
QueueMutexFree == workerPc \notin {"predicate", "block", "locked"}

\* the predicate of queue_cv_.wait
WaitPredicate == audio_queue_ # <<>> \/ ~running \/ paused

\* queue_cv_.notify_one / notify_all: a thread blocked in the wait is woken, a thread
\* at any other place is not affected
notify(pc) == IF pc = "blocked" THEN "woken" ELSE pc

\* "while (running_.load()) { std::unique_lock<std::mutex> lock(queue_mutex_);"
WorkerLock ==
    /\ workerPc \in {"wait", "woken"}
    /\ workerPc' = IF workerPc = "wait" /\ ~running THEN "exited" ELSE "predicate"
    /\ UNCHANGED <<running, paused, config_, whisper_, vad_, speech_buffer_, in_speech_,
                   audio_queue_, workerChunk, asrLog, vadLog, call, metrics_, metrics_mutex_,
                   current_config, stt_config, config_file, feedPc, curFrame, fed,
                   events, ctlPc, ctlArg, lastCmd, ncmds, lastEnd>>
    /\ UNCHANGED serverVars

\* wait(lock, pred): "while (!pred()) wait(lock);", the evaluation of pred
WorkerPredicate ==
    /\ workerPc = "predicate"
    /\ workerPc' = IF WaitPredicate THEN "locked" ELSE "block"
    /\ UNCHANGED <<running, paused, config_, whisper_, vad_, speech_buffer_, in_speech_,
                   audio_queue_, workerChunk, asrLog, vadLog, call, metrics_, metrics_mutex_,
                   current_config, stt_config, config_file, feedPc, curFrame, fed,
                   events, ctlPc, ctlArg, lastCmd, ncmds, lastEnd>>
    /\ UNCHANGED serverVars

\* wait(lock): the mutex is released and the thread blocks
WorkerBlock ==
    /\ workerPc = "block"
    /\ workerPc' = "blocked"
    /\ UNCHANGED <<running, paused, config_, whisper_, vad_, speech_buffer_, in_speech_,
                   audio_queue_, workerChunk, asrLog, vadLog, call, metrics_, metrics_mutex_,
                   current_config, stt_config, config_file, feedPc, curFrame, fed,
                   events, ctlPc, ctlArg, lastCmd, ncmds, lastEnd>>
    /\ UNCHANGED serverVars

\* after the wait: break when stopped, continue when paused, else dequeue and process
WorkerDequeue ==
    /\ workerPc = "locked"
    /\ IF ~running
       THEN workerPc' = "exited" /\ UNCHANGED <<audio_queue_, workerChunk>>
       ELSE /\ workerPc' = "wait"
            /\ IF ~paused /\ audio_queue_ # <<>>
               THEN workerChunk' = front(audio_queue_) /\ audio_queue_' = pop(audio_queue_)
               ELSE UNCHANGED <<audio_queue_, workerChunk>>
    /\ UNCHANGED <<running, paused, config_, whisper_, vad_, speech_buffer_, in_speech_,
                   asrLog, vadLog, call, metrics_, metrics_mutex_,
                   current_config, stt_config, config_file, feedPc, curFrame, fed, events, ctlPc, ctlArg, lastCmd,
                   ncmds, lastEnd>>
    /\ UNCHANGED serverVars

\* the state callback's push of an utterance, by the feeding thread:
\* lock_guard, push, notify_one
EnqueueChunk ==
    /\ FeedAccepts
    /\ Len(fed) < MaxEnqueues
    /\ QueueMutexFree
    /\ audio_queue_' = Append(audio_queue_, [samples |-> <<(<<Len(fed) + 1, 1, MinSamples + 1>>)>>])
    /\ fed' = Append(fed, [rms |-> 0, paused |-> paused, accepted |-> TRUE])
    /\ workerPc' = notify(workerPc)
    /\ UNCHANGED <<running, paused, config_, whisper_, vad_, speech_buffer_, in_speech_,
                   workerChunk, asrLog, vadLog, call, metrics_, metrics_mutex_,
                   current_config, stt_config, config_file, feedPc, curFrame, events, ctlPc, ctlArg,
                   lastCmd, ncmds, lastEnd>>
    /\ UNCHANGED serverVars

\* STTEngine::pause
PauseEngine ==
    /\ ctlPc = "idle"
    /\ ncmds < MaxCmds
    /\ paused' = TRUE
    /\ ncmds' = ncmds + 1
    /\ UNCHANGED <<running, config_, whisper_, vad_, speech_buffer_, in_speech_, audio_queue_,
                   workerPc, workerChunk, asrLog, vadLog, call, metrics_, metrics_mutex_,
                   current_config, stt_config, config_file, feedPc, curFrame, fed, events,
                   ctlPc, ctlArg, lastCmd, lastEnd>>
    /\ UNCHANGED serverVars

\* STTEngine::resume: "paused_ = false; queue_cv_.notify_all();"
ResumeEngine ==
    /\ ctlPc = "idle"
    /\ ncmds < MaxCmds
    /\ paused' = FALSE
    /\ workerPc' = notify(workerPc)
    /\ ncmds' = ncmds + 1
    /\ UNCHANGED <<running, config_, whisper_, vad_, speech_buffer_, in_speech_, audio_queue_,
                   workerChunk, asrLog, vadLog, call, metrics_, metrics_mutex_,
                   current_config, stt_config, config_file, feedPc, curFrame, fed, events, ctlPc,
                   ctlArg, lastCmd, lastEnd>>
    /\ UNCHANGED serverVars

\* STTEngine::stop: "if (!running_.load()) return; running_ = false;"
StopSetFlag ==
    /\ ctlPc = "idle"
    /\ running
    /\ running' = FALSE
    /\ ctlPc' = "notify"
    /\ UNCHANGED <<paused, config_, whisper_, vad_, speech_buffer_, in_speech_, audio_queue_,
                   workerPc, workerChunk, asrLog, vadLog, call, metrics_, metrics_mutex_,
                   current_config, stt_config, config_file, feedPc, curFrame, fed, events,
                   ctlArg, lastCmd, ncmds, lastEnd>>
    /\ UNCHANGED serverVars

\* STTEngine::stop: "queue_cv_.notify_all();", made without queue_mutex_
StopNotify ==
    /\ ctlPc = "notify"
    /\ workerPc' = notify(workerPc)
    /\ ctlPc' = "join"
    /\ UNCHANGED <<running, paused, config_, whisper_, vad_, speech_buffer_, in_speech_,
                   audio_queue_, workerChunk, asrLog, vadLog, call, metrics_, metrics_mutex_,
                   current_config, stt_config, config_file, feedPc, curFrame, fed,
                   events, ctlArg, lastCmd, ncmds, lastEnd>>
    /\ UNCHANGED serverVars

\* STTEngine::stop: "processing_thread_.join(); clear_buffers();"
StopJoin ==
    /\ ctlPc = "join"
    /\ workerPc = "exited"
    /\ speech_buffer_' = clear_buffers[1]
    /\ in_speech_' = clear_buffers[2]
    /\ audio_queue_' = clear_buffers[3]
    /\ vad_' = clear_buffers[4]
    /\ ctlPc' = "stopped"
    /\ UNCHANGED <<running, paused, config_, whisper_, workerPc, workerChunk, asrLog, vadLog,
                   call, metrics_, metrics_mutex_,
                   current_config, stt_config, config_file, feedPc, curFrame, fed, events, ctlArg, lastCmd, ncmds, lastEnd>>
    /\ UNCHANGED serverVars

NextWake ==
    \/ WorkerLock
    \/ WorkerPredicate
    \/ WorkerBlock
    \/ WorkerDequeue
    \/ EnqueueChunk
    \/ PauseEngine
    \/ ResumeEngine
    \/ StopSetFlag
    \/ StopNotify
    \/ StopJoin

SpecWake == Init /\ [][NextWake]_vars

\* The accept thread, the handler threads, the clients and the broadcasts.
NextServer ==
    \/ AcceptConn
    \/ AcceptStore
    \/ \E fd \in FDs : ClientClose(fd)
    \/ \E fd \in FDs : HandlerLoop(fd)
    \/ \E fd \in FDs : \E m \in ClientMsgs(nsent[fd] + 1) : HandlerRecv(fd, m)
    \/ \E fd \in FDs : HandlerRecvFail(fd)
    \/ \E fd \in FDs : ProcessCommand(fd)
    \/ \E fd \in FDs : ProcessBadCommand(fd)
    \/ \E fd \in FDs : ProcessSubscribe(fd)
    \/ \E fd \in FDs : HandlerCleanup(fd)
    \/ \E fd \in FDs : HandlerClose(fd)
    \/ \E r \in Results : WorkerResult(r)

\* The server specification starts the daemon with one VAD configuration.
InitServer == Init /\ config_.vad_config.min_speech_ms = 250

SpecServer == InitServer /\ [][NextServer]_vars

\* The messages clients send while the daemon is shut down.
ShutdownMsgs(k) == {m \in ClientMsgs(k) : m.type \in {"SUBSCRIBE", "INVALID"}}

\* The shutdown sequence of main() against the accept thread, the handler threads and
\* the clients.
NextShutdown ==
    \/ AcceptConn
    \/ AcceptStore
    \/ AcceptExit
    \/ \E fd \in FDs : ClientClose(fd)
    \/ \E fd \in FDs : HandlerLoop(fd)
    \/ \E fd \in FDs : \E m \in ShutdownMsgs(nsent[fd] + 1) : HandlerRecv(fd, m)
    \/ \E fd \in FDs : HandlerRecvFail(fd)
    \/ \E fd \in FDs : ProcessSubscribe(fd)
    \/ \E fd \in FDs : HandlerCleanup(fd)
    \/ \E fd \in FDs : HandlerClose(fd)
    \/ StopEngine
    \/ ServerStop
    \/ StopJoinAccept
    \/ StopLock
    \/ StopCloseClient
    \/ StopJoinClient
    \/ StopFinish

SpecShutdown == InitServer /\ [][NextShutdown]_vars

\* A VAD constructed with one of the configurations and driven directly.
InitVad ==
    /\ \E c \in VadTestConfigs :
          /\ config_ = [vad_config |-> c, model_path |-> "small.bin",
                        max_queue_size |-> Lowest(QueueSizes)]
          /\ vad_ = VadInit(c)
    /\ vadLog = NoVadLog
    /\ call = NoCall
    /\ metrics_ = NoMetrics
    /\ metrics_mutex_ = "free"
    /\ stt_config = [model_path |-> config_.model_path, vad_config |-> config_.vad_config]
    /\ current_config = JsonOf(config_.model_path, config_.vad_config)
    /\ config_file = NoFile
    /\ running = TRUE
    /\ paused = FALSE
    /\ whisper_ = initialize(NewWhisper, "small.bin")[2]
    /\ speech_buffer_ = <<>>
    /\ in_speech_ = FALSE
    /\ audio_queue_ = <<>>
    /\ workerPc = "wait"
    /\ workerChunk = NoChunk
    /\ asrLog = <<>>
    /\ feedPc = "idle"
    /\ curFrame = NoFrame
    /\ fed = <<>>
    /\ events = <<>>
    /\ ctlPc = "idle"
    /\ ctlArg = NoCmd
    /\ lastCmd = NoCmd
    /\ ncmds = 0
    /\ lastEnd = NoEnd
    /\ shutdown_requested = FALSE
    /\ srvRunning = TRUE
    /\ acceptPc = "accept"
    /\ pending = NoPending
    /\ next_client_id = 1
    /\ clients = [f \in {} |-> 0]
    /\ clients_mutex = "free"
    /\ sock = [f \in FDs |-> "free"]
    /\ connId = [f \in FDs |-> 0]
    /\ hpc = [f \in FDs |-> "none"]
    /\ hmsg = [f \in FDs |-> NoMsg]
    /\ inbox = [f \in FDs |-> <<>>]
    /\ nsent = [f \in FDs |-> 0]
    /\ handled = [f \in FDs |-> <<>>]
    /\ crashed = FALSE
    /\ stopPc = "running"
    /\ stopTodo = {}
    /\ stopFd = 0
    /\ bcastLog = <<>>
    /\ protoErrors = 0
    /\ rxLog = [f \in FDs |-> <<>>]
    /\ wire = [f \in FDs |-> <<>>]
    /\ bcast = NoBroadcast

\* The calls made on the VAD.
NextVad ==
    \/ \E rms \in VadEnergies : VadProcess(rms)
    \/ \E c \in VadTestConfigs : VadUpdateConfig(c)
    \/ VadReset

SpecVad == InitVad /\ [][NextVad]_vars

\* The accept thread and the handler threads against clients that only subscribe and
\* unsubscribe, several times on one connection.
NextSubscription ==
    \/ AcceptConn
    \/ AcceptStore
    \/ \E fd \in FDs : ClientClose(fd)
    \/ \E fd \in FDs : HandlerLoop(fd)
    \/ \E fd \in FDs : \E m \in SubscriptionMsgs(nsent[fd] + 1) : SubscriberRecv(fd, m)
    \/ \E fd \in FDs : HandlerRecvFail(fd)
    \/ \E fd \in FDs : ProcessSubscribe(fd)
    \/ \E fd \in FDs : HandlerCleanup(fd)
    \/ \E fd \in FDs : HandlerClose(fd)

SpecSubscription == InitServer /\ [][NextSubscription]_vars

\* The accept thread and the handler threads against clients that choose the length
\* prefix of their frames.
NextFraming ==
    \/ AcceptConn
    \/ AcceptStore
    \/ \E fd \in FDs : ClientClose(fd)
    \/ \E fd \in FDs : HandlerLoop(fd)
    \/ \E fd \in FDs : \E m \in FramedMsgs(nsent[fd] + 1) : FramedRecv(fd, m)
    \/ \E fd \in FDs : HandlerRecvFail(fd)
    \/ \E fd \in FDs : ProcessSubscribe(fd)
    \/ \E fd \in FDs : HandlerCleanup(fd)
    \/ \E fd \in FDs : HandlerClose(fd)

SpecFraming == InitServer /\ [][NextFraming]_vars

\* --------------------------------------------- writes to a socket, send by send
\* The commands a client writes in the model of the writes.
CommandMsgs(k) == {m \in ClientMsgs(k) : m.type = "COMMAND" /\ IsObject(m.data)}

CommandRecv(fd, m) ==
    /\ nsent[fd] < MaxMsgs
    /\ m \in CommandMsgs(nsent[fd] + 1)
    /\ receive_message(fd, m)

\* send_message, "send(client_fd, &length, sizeof(length), 0)": the bytes on the socket
SendPrefix(w, fd, who, id) == [w EXCEPT ![fd] = Append(@, <<who, id, "prefix">>)]

\* send_message, the loop of send() over the body
SendBody(w, fd, who, id) == [w EXCEPT ![fd] = Append(@, <<who, id, "body">>)]

\* process_message, COMMAND: the command handler, then send_message up to the send of
\* the length prefix; send_message returns at once when that send fails
ReplyPrefix(fd) ==
    /\ hpc[fd] = "process"
    /\ ~crashed
    /\ hmsg[fd].type = "COMMAND"
    /\ IsObject(hmsg[fd].data)
    /\ hmsg[fd].data.action = "get_status" => clients_mutex = "free"
    /\ paused' = PausedAfter(hmsg[fd].data.action)
    /\ IF SendOk(fd)
       THEN /\ wire' = SendPrefix(wire, fd, "reply", hmsg[fd].id)
            /\ hpc' = [hpc EXCEPT ![fd] = "body"]
            /\ UNCHANGED <<hmsg, handled>>
       ELSE /\ handled' = [handled EXCEPT ![fd] = Append(@, Handled(fd, hmsg[fd]))]
            /\ hpc' = [hpc EXCEPT ![fd] = "loop"]
            /\ hmsg' = [hmsg EXCEPT ![fd] = NoMsg]
            /\ UNCHANGED wire
    /\ UNCHANGED <<shutdown_requested, srvRunning, acceptPc, pending, next_client_id, clients,
                   clients_mutex, sock, connId, inbox, nsent, crashed, stopPc, stopTodo,
                   stopFd, bcastLog, protoErrors, rxLog, bcast>>
    /\ UNCHANGED <<running, config_, whisper_, vad_, speech_buffer_, in_speech_, audio_queue_,
                   workerPc, workerChunk, asrLog, vadLog, call, metrics_, metrics_mutex_,
                   current_config, stt_config, config_file, feedPc, curFrame, fed, events,
                   ctlPc, ctlArg, lastCmd, ncmds, lastEnd>>

\* process_message, COMMAND: the rest of send_message, made by the handler thread
\* without any lock
ReplyBody(fd) ==
    /\ hpc[fd] = "body"
    /\ ~crashed
    /\ IF SendOk(fd)
       THEN /\ wire' = SendBody(wire, fd, "reply", hmsg[fd].id)
            /\ inbox' = send_message(inbox, fd, CommandReply(hmsg[fd]))
       ELSE UNCHANGED <<wire, inbox>>
    /\ handled' = [handled EXCEPT ![fd] = Append(@, Handled(fd, hmsg[fd]))]
    /\ hpc' = [hpc EXCEPT ![fd] = "loop"]
    /\ hmsg' = [hmsg EXCEPT ![fd] = NoMsg]
    /\ UNCHANGED <<shutdown_requested, srvRunning, acceptPc, pending, next_client_id, clients,
                   clients_mutex, sock, connId, nsent, crashed, stopPc, stopTodo, stopFd,
                   bcastLog, protoErrors, rxLog, bcast>>
    /\ UNCHANGED engineVars

\* broadcast_transcription_full, by the worker thread: the lock_guard on clients_mutex
BroadcastLock(result) ==
    /\ stopPc = "running"
    /\ ~crashed
    /\ bcast = NoBroadcast
    /\ clients_mutex = "free"
    /\ Len(bcastLog) < MaxEvents
    /\ result.text # <<>>
    /\ events' = Append(events, result)
    /\ clients_mutex' = "worker"
    /\ bcast' = [pc |-> "loop",
                 todo |-> {fd \in DOMAIN clients : WantsTranscriptions(clients[fd])},
                 msg |-> [type |-> "TRANSCRIPTION", id |-> Len(bcastLog) + 1,
                          data |-> [text |-> result.text, is_final |-> result.is_final]]]
    /\ bcastLog' = Append(bcastLog, Snapshot)
    /\ UNCHANGED <<shutdown_requested, srvRunning, acceptPc, pending, next_client_id, clients,
                   sock, connId, hpc, hmsg, inbox, nsent, handled, crashed, stopPc, stopTodo,
                   stopFd, protoErrors, rxLog, wire>>
    /\ UNCHANGED <<running, paused, config_, whisper_, vad_, speech_buffer_, in_speech_,
                   audio_queue_, workerPc, workerChunk, asrLog, vadLog, call, metrics_, metrics_mutex_,
                   current_config, stt_config, config_file, feedPc, curFrame,
                   fed, ctlPc, ctlArg, lastCmd, ncmds, lastEnd>>

\* the loop of the broadcast, send_message up to the send of the length prefix
BroadcastPrefix ==
    /\ bcast.pc = "loop"
    /\ bcast.todo # {}
    /\ LET fd == Lowest(bcast.todo)
       IN IF SendOk(fd)
          THEN /\ wire' = SendPrefix(wire, fd, "broadcast", bcast.msg.id)
               /\ bcast' = [bcast EXCEPT !.pc = "body"]
          ELSE /\ bcast' = [bcast EXCEPT !.todo = @ \ {fd}]
               /\ UNCHANGED wire
    /\ UNCHANGED <<shutdown_requested, srvRunning, acceptPc, pending, next_client_id, clients,
                   clients_mutex, sock, connId, hpc, hmsg, inbox, nsent, handled, crashed,
                   stopPc, stopTodo, stopFd, bcastLog, protoErrors, rxLog>>
    /\ UNCHANGED engineVars

\* the loop of the broadcast, the rest of send_message
BroadcastBody ==
    /\ bcast.pc = "body"
    /\ LET fd == Lowest(bcast.todo)
       IN /\ IF SendOk(fd)
             THEN /\ wire' = SendBody(wire, fd, "broadcast", bcast.msg.id)
                  /\ inbox' = send_message(inbox, fd, bcast.msg)
             ELSE UNCHANGED <<wire, inbox>>
          /\ bcast' = [bcast EXCEPT !.pc = "loop", !.todo = @ \ {fd}]
    /\ UNCHANGED <<shutdown_requested, srvRunning, acceptPc, pending, next_client_id, clients,
                   clients_mutex, sock, connId, hpc, hmsg, nsent, handled, crashed, stopPc,
                   stopTodo, stopFd, bcastLog, protoErrors, rxLog>>
    /\ UNCHANGED engineVars

\* the end of the broadcast: the lock_guard leaves its scope
BroadcastUnlock ==
    /\ bcast.pc = "loop"
    /\ bcast.todo = {}
    /\ clients_mutex' = "free"
    /\ bcast' = NoBroadcast
    /\ UNCHANGED <<shutdown_requested, srvRunning, acceptPc, pending, next_client_id, clients,
                   sock, connId, hpc, hmsg, inbox, nsent, handled, crashed, stopPc, stopTodo,
                   stopFd, bcastLog, protoErrors, rxLog, wire>>
    /\ UNCHANGED engineVars

\* the accept thread, the handler threads of clients that send commands and stay
\* connected, and the worker thread that broadcasts
NextWrites ==
    \/ AcceptConn
    \/ AcceptStore
    \/ \E fd \in FDs : HandlerLoop(fd)
    \/ \E fd \in FDs : \E m \in CommandMsgs(nsent[fd] + 1) : CommandRecv(fd, m)
    \/ \E fd \in FDs : ReplyPrefix(fd)
    \/ \E fd \in FDs : ReplyBody(fd)
    \/ \E r \in Results : BroadcastLock(r)
    \/ BroadcastPrefix
    \/ BroadcastBody
    \/ BroadcastUnlock

SpecWrites == InitServer /\ [][NextWrites]_vars

\* ------------------------------------------------------------------ claims
\* C1: when the VAD goes from SPEECH_ENDING to SILENCE and the engine is not paused, the
\* utterance is enqueued for transcription if and only if the speech the VAD accumulated
\* is at least the configured min_speech_ms.
C1_EnqueuedIffMinSpeech ==
    (lastEnd.seen /\ ~lastEnd.paused) =>
        (lastEnd.pushed <=> lastEnd.speech_frames >= lastEnd.min_frames)

\* C2: audio fed between pause and resume never produces a transcription: every frame of
\* the audio a transcription event was made from was fed while the engine was not paused,
\* and no two events are made from the same audio.
C2_PausedAudioNeverTranscribed ==
    /\ \A i \in DOMAIN events : \A f \in FramesOf(events[i].samples) : ~fed[f].paused
    /\ \A i, j \in DOMAIN events : i # j => events[i].samples # events[j].samples

\* pause; an utterance A (two loud frames, two quiet frames) fed while paused; resume; an
\* utterance B; one event, made from frames of B only
C2_Witness ==
    /\ Len(events) = 1
    /\ \E k \in 1..(Len(fed) - 3) :
          /\ \A d \in 0..3 : fed[k + d].paused
          /\ fed[k].rms = 20 /\ fed[k + 1].rms = 20 /\ fed[k + 2].rms = 5 /\ fed[k + 3].rms = 5
          /\ \A f \in FramesOf(events[1].samples) : f > k + 3

\* C10: a set_model that fails reports the failure and leaves the engine with the ASR
\* instance it had before, and running again if it was running.
C10_FailedSetModelKeepsPrior ==
    (ctlPc = "idle" /\ lastCmd.action = "set_model" /\ "error" \in DOMAIN lastCmd.result) =>
        /\ whisper_.ctx = lastCmd.prior
        /\ lastCmd.was_running => (running /\ workerPc # "exited")

\* the numbers of the transcription events the client of the connection on fd received
TranscriptionIds(fd) ==
    LET ts == SelectSeq(inbox[fd], LAMBDA m : m.type = "TRANSCRIPTION")
    IN [i \in DOMAIN ts |-> ts[i].id]

\* the client of the connection on fd has received the event of broadcast k
Received(fd, k) == \E i \in DOMAIN inbox[fd] :
                      inbox[fd][i].type = "TRANSCRIPTION" /\ inbox[fd][i].id = k

\* broadcast k found the connection that is now on fd stored in the map, connected
StoredAt(fd, k) == \E e \in bcastLog[k] : e.fd = fd /\ e.conn = connId[fd] /\ e.open

\* broadcast k found the connection that is now on fd stored with its flag set
SubscribedAt(fd, k) ==
    \E e \in bcastLog[k] : e.fd = fd /\ e.conn = connId[fd] /\ e.open /\ e.subscribed

C4_GlobalOrder ==
    \A fd \in FDs :
        /\ \A i, j \in DOMAIN TranscriptionIds(fd) :
              i < j => TranscriptionIds(fd)[i] < TranscriptionIds(fd)[j]
        /\ \A i \in DOMAIN inbox[fd] :
              inbox[fd][i].type = "TRANSCRIPTION" =>
                  inbox[fd][i].data.text = events[inbox[fd][i].id].text
        /\ connId[fd] # 0 =>
              \A k \in DOMAIN bcastLog : SubscribedAt(fd, k) => Received(fd, k)

\* two clients stayed connected and subscribed through two events and have both, in order
C4_Witness ==
    /\ Len(bcastLog) = 2
    /\ \A fd \in FDs : connId[fd] # 0 /\ SubscribedAt(fd, 1) /\ SubscribedAt(fd, 2)
                      /\ TranscriptionIds(fd) = <<1, 2>>

\* a message process_message has returned for was answered with exactly one
\* acknowledgment or error carrying its id
AnsweredOnce(fd, h) ==
    Cardinality({i \in DOMAIN inbox[fd] :
                    /\ inbox[fd][i].type \in {"ACKNOWLEDGMENT", "ERROR"}
                    /\ inbox[fd][i].id = h.id}) = 1

\* C5: every Command, Subscribe or Unsubscribe a connected client sent, once the server has
\* processed it, has been answered on its connection with exactly one acknowledgment or
\* error carrying its id.
C5_AnsweredExactlyOnce ==
    \A fd \in FDs : \A i \in DOMAIN handled[fd] :
        handled[fd][i].live => AnsweredOnce(fd, handled[fd][i])

\* C6: a Command whose action is not a defined action is answered with an error whose
\* message is "Unknown action: <action>" and never with an acknowledgment.
C6_UnknownActionIsError ==
    \A fd \in FDs : \A i \in DOMAIN handled[fd] :
        LET h == handled[fd][i] IN
        (h.live /\ h.type = "COMMAND" /\ h.data.action \notin DefinedActions) =>
            /\ \E j \in DOMAIN inbox[fd] :
                  /\ inbox[fd][j].type = "ERROR" /\ inbox[fd][j].id = h.id
                  /\ inbox[fd][j].data.message = <<"Unknown action: ", h.data.action>>
            /\ \A j \in DOMAIN inbox[fd] :
                  inbox[fd][j].id = h.id => inbox[fd][j].type # "ACKNOWLEDGMENT"

\* broadcast k found a subscribed entry whose send fails
FailedSendAt(k) == \E e \in bcastLog[k] : e.subscribed /\ ~e.open

\* C7: a send that fails never aborts the broadcast: a broadcast that found a dead
\* subscriber was still delivered to every connected subscribed client, on whichever side
\* of the dead one the loop visits it.
C7_FailedSendNeverAborts ==
    \A k \in DOMAIN bcastLog :
        FailedSendAt(k) =>
            \A fd \in FDs : (connId[fd] # 0 /\ SubscribedAt(fd, k)) => Received(fd, k)

\* two clients, the one the loop visits first killed: both broadcasts after that reached
\* the survivor, and the dead client's entry has been erased while the survivor's stays
C7_Witness ==
    /\ Len(bcastLog) = MaxEvents
    /\ \A k \in DOMAIN bcastLog :
          /\ \E e \in bcastLog[k] : e.fd = 1 /\ e.subscribed /\ ~e.open
          /\ SubscribedAt(2, k) /\ Received(2, k)
    /\ DOMAIN clients = {2}
    /\ sock[2] = "open"

\* C8: a protocol error of a client (bytes that are no JSON message with a usable type, a
\* Command whose data is not an object) closes the offending connection only: the daemon
\* keeps running and no other connection is touched.
C8_ProtocolErrorClosesOnlyOffender ==
    [][protoErrors' # protoErrors =>
          /\ ~crashed'
          /\ \E fd \in FDs : \A g \in FDs \ {fd} :
                /\ sock'[g] = sock[g]
                /\ hpc'[g] = hpc[g]
                /\ (g \in DOMAIN clients => g \in DOMAIN clients')]_vars

\* the steps the daemon's own threads can take without any client acting
DaemonStep ==
    \/ AcceptStore
    \/ AcceptExit
    \/ \E fd \in FDs : HandlerLoop(fd)
    \/ \E fd \in FDs : HandlerRecvFail(fd)
    \/ \E fd \in FDs : ProcessSubscribe(fd)
    \/ \E fd \in FDs : HandlerCleanup(fd)
    \/ \E fd \in FDs : HandlerClose(fd)
    \/ ServerStop
    \/ StopJoinAccept
    \/ StopLock
    \/ StopCloseClient
    \/ StopJoinClient
    \/ StopFinish

\* C9: the shutdown sequence terminates with every thread joined, clients connected or
\* not: until Server::stop has returned, some thread of the daemon can take a step.
C9_ShutdownTerminates ==
    (stopPc \notin {"running", "done"} /\ ~crashed) => ENABLED DaemonStep

\* C11: the utterance queue never holds more utterances than its configured capacity.
C11_QueueBounded == Len(audio_queue_) <= config_.max_queue_size

\* the last frame of a chunk: the VAD emitted the chunk at the frame after it
Stamp(samples) == samples[Len(samples)][1]

\* the chunks handed to the ASR back end so far, in the order they were handed
Handed ==
    [i \in DOMAIN asrLog |-> asrLog[i].samples]
    \o (IF workerPc = "process" THEN <<workerChunk.samples>> ELSE <<>>)

\* C12: the worker hands the utterances to the ASR back end in the order the VAD emitted
\* them, and the utterances still queued are in that order behind them.
C12_Fifo ==
    LET all == Handed \o [i \in DOMAIN audio_queue_ |-> audio_queue_[i].samples]
    IN \A i, j \in DOMAIN all : i < j => Stamp(all[i]) < Stamp(all[j])

\* two utterances were emitted and both have been handed to the ASR back end
C12_Witness == Len(asrLog) = 2 /\ Stamp(asrLog[1].samples) < Stamp(asrLog[2].samples)

\* the calls of the ASR back end whose result was emitted
EmittedCalls == SelectSeq(asrLog, LAMBDA c : c.emitted)

C14_ConstantQuietNeverSpeech ==
    (vadLog.n >= 1 /\ vadLog.constant /\ vadLog.below) => vad_.state # "SPEECH"

\* the states before and after the last VAD::process call
OldState == vadLog.before.state
NewState == vad_.state

AtSwitch == BeforeStateMachine(vadLog.before, vadLog.frame)
SpeechThresholdScaled ==
    IF AtSwitch.config.use_adaptive_threshold
    THEN AtSwitch.noise_floor * AtSwitch.config.speech_start_threshold
    ELSE AtSwitch.config.speech_start_threshold * Scale
SilenceThresholdScaled ==
    IF AtSwitch.config.use_adaptive_threshold
    THEN AtSwitch.noise_floor * AtSwitch.config.speech_end_threshold
    ELSE AtSwitch.config.speech_end_threshold * Scale
EnergyScaled == calculate_energy(vadLog.frame) * Scale
SpeechMs == (vadLog.before.speech_frames + vadLog.frame.n) \div AtSwitch.frames_per_ms
SilenceMs == (vadLog.before.silence_frames + vadLog.frame.n) \div AtSwitch.frames_per_ms

\* C16: VAD::process implements the transition table: SILENCE -> SPEECH_MAYBE iff
\* e > speech_threshold; SPEECH_MAYBE -> SPEECH iff e > speech_threshold and the speech
\* accumulated is at least speech_start_ms; SPEECH_MAYBE -> SILENCE iff
\* e <= speech_threshold; SPEECH -> SPEECH_ENDING iff e < silence_threshold;
\* SPEECH_ENDING -> SILENCE iff e < silence_threshold and the silence accumulated is at
\* least speech_end_ms; SPEECH_ENDING -> SPEECH iff e >= silence_threshold; no other
\* change of state happens.
C16_TransitionTable ==
    vadLog.op = "process" =>
        /\ OldState = "SILENCE" =>
              /\ NewState = "SPEECH_MAYBE" <=> EnergyScaled > SpeechThresholdScaled
              /\ NewState \in {"SILENCE", "SPEECH_MAYBE"}
        /\ OldState = "SPEECH_MAYBE" =>
              /\ NewState = "SPEECH" <=>
                    /\ EnergyScaled > SpeechThresholdScaled
                    /\ SpeechMs >= AtSwitch.config.speech_start_ms
              /\ NewState = "SILENCE" <=> EnergyScaled <= SpeechThresholdScaled
              /\ NewState \in {"SPEECH_MAYBE", "SPEECH", "SILENCE"}
        /\ OldState = "SPEECH" =>
              /\ NewState = "SPEECH_ENDING" <=> EnergyScaled < SilenceThresholdScaled
              /\ NewState \in {"SPEECH", "SPEECH_ENDING"}
        /\ OldState = "SPEECH_ENDING" =>
              /\ NewState = "SILENCE" <=>
                    /\ EnergyScaled < SilenceThresholdScaled
                    /\ SilenceMs >= AtSwitch.config.speech_end_ms
              /\ NewState = "SPEECH" <=> EnergyScaled >= SilenceThresholdScaled
              /\ NewState \in {"SPEECH_ENDING", "SILENCE", "SPEECH"}

\* a frame whose energy equals the silence threshold takes SPEECH_ENDING back to SPEECH
C16_Witness ==
    /\ vadLog.op = "process"
    /\ OldState = "SPEECH_ENDING" /\ NewState = "SPEECH"
    /\ EnergyScaled = SilenceThresholdScaled

\* C18: in every state reached by process, update_config and reset calls the noise floor
\* is at least half the energy_threshold currently configured.
C18_NoiseFloorAtLeastHalfThreshold ==
    2 * vad_.noise_floor >= vad_.config.energy_threshold

\* block b holds the samples of the stream that come right after those of block a
Follows(a, b) ==
    \/ b[1] = a[1] /\ b[2] = a[3] + 1
    \/ b[1] = a[1] + 1 /\ b[2] = 1 /\ a[3] = FrameMs * (SampleRate \div 1000)

\* the utterances emitted so far: queued, held by the worker or already transcribed
Utterances ==
    {audio_queue_[i].samples : i \in DOMAIN audio_queue_}
    \cup {asrLog[i].samples : i \in DOMAIN asrLog}
    \cup (IF workerPc = "process" THEN {workerChunk.samples} ELSE {})

\* C17: an emitted utterance is the pre-speech ring as it was at SPEECH_MAYBE -> SPEECH
\* followed by the frames of the speech segment in stream order: a contiguous slice of the
\* input stream, in which every sample fed appears at most once.
C17_UtteranceIsContiguousSlice ==
    \A u \in Utterances : \A i \in 1..(Len(u) - 1) : Follows(u[i], u[i + 1])

\* the handler thread on fd is inside process_message with a message of its own connection
\* whose entry is the one stored under fd
OwnMessage(fd) ==
    /\ hpc[fd] = "process"
    /\ hmsg[fd].type \in {"SUBSCRIBE", "UNSUBSCRIBE"}
    /\ clients[fd].id = connId[fd]

\* C19: every newly accepted connection starts subscribed, and a Subscribe, Unsubscribe
\* or Command on one connection never changes the subscription flag of another
\* connection: an entry enters the map with its flag set, and the flag of an entry changes
\* only in a step of the handler thread of the connection the entry belongs to.
C19_SubscriptionIsPerConnection ==
    [][/\ \A f \in DOMAIN clients' \ DOMAIN clients : clients'[f].subscribed
       /\ \A f \in DOMAIN clients \cap DOMAIN clients' :
             (clients'[f].id = clients[f].id
              /\ clients'[f].subscribed # clients[f].subscribed) => OwnMessage(f)]_vars

\* the connection on fd is served and its entry is the one stored under fd
Served(fd) ==
    /\ connId[fd] # 0
    /\ hpc[fd] \in {"loop", "recv", "process"}
    /\ fd \in DOMAIN clients
    /\ clients[fd].id = connId[fd]

\* the last two messages of the connection on fd that process_message has returned for
\* are both of the given type
SentTwice(fd, type) ==
    LET n == Len(handled[fd])
    IN n >= 2 /\ handled[fd][n].type = type /\ handled[fd][n - 1].type = type

\* C20: Subscribe and Unsubscribe are idempotent per connection: after Subscribe was sent
\* twice the connection is subscribed, as after one, and after Unsubscribe was sent twice
\* it is unsubscribed, from any prior subscription state.
C20_SubscribeIdempotent ==
    \A fd \in FDs :
        Served(fd) =>
            /\ SentTwice(fd, "SUBSCRIBE") => clients[fd].subscribed
            /\ SentTwice(fd, "UNSUBSCRIBE") => ~clients[fd].subscribed

\* C21: a frame whose length prefix exceeds 1 MiB (1,048,576) terminates the connection
\* without dispatching a message: it is the last frame read on the connection and the
\* handler thread has left its loop; a frame of exactly 1 MiB or less that holds a message
\* is read and dispatched.
C21_LengthLimit ==
    \A fd \in FDs : \A i \in DOMAIN rxLog[fd] :
        LET r == rxLog[fd][i] IN
        /\ r.length > 1048576 =>
              /\ ~r.dispatched
              /\ i = Len(rxLog[fd])
              /\ hpc[fd] \in {"cleanup", "close"}
        /\ (r.length <= 1048576 /\ r.type # "INVALID") => r.dispatched

\* a connection on which a frame of exactly 1 MiB was dispatched and the next frame, one
\* byte longer, ended the loop
C21_Witness ==
    \E fd \in FDs :
        /\ Len(rxLog[fd]) = 2
        /\ rxLog[fd][1].length = 1048576 /\ rxLog[fd][1].dispatched
        /\ rxLog[fd][2].length = 1048577 /\ ~rxLog[fd][2].dispatched
        /\ Len(handled[fd]) = 1

\* C22: when the read of a connection fails or reaches EOF, its socket is closed and its
\* record is removed from the map, under every interleaving of the accept thread and the
\* handler thread: the map holds no record of a connection whose handler thread has
\* exited, so every record is that of the connection now served on its descriptor.
C22_NoRecordAfterHandlerExit ==
    \A fd \in DOMAIN clients : clients[fd].id = connId[fd]

\* the step is STTEngine::resume taking effect on a paused engine
ResumeStep == paused /\ ~paused' /\ ctlPc = "idle" /\ ctlPc' = "idle"

\* C23: after resume the VAD is in SILENCE with zero speech and silence counters and an
\* empty pre-speech ring, whatever state it was in when pause took effect.
C23_ResumeResetsVad ==
    [][ResumeStep =>
          /\ vad_'.state = "SILENCE"
          /\ vad_'.speech_frames = 0
          /\ vad_'.silence_frames = 0
          /\ vad_'.audio_buffer = <<>>]_vars

\* C24: a configuration change received while an utterance is in progress (the VAD is
\* not in SILENCE) takes effect only after the utterance has ended: the VAD parameters
\* never change between the first and the last frame of one utterance.
C24_ConfigFixedDuringUtterance ==
    [][vad_.state # "SILENCE" => vad_'.config = vad_.config]_vars

\* the bytes std::isalnum accepts in the "C" locale, among TextChars
IsAlnum(c) == c \in {"a", "b", "1"}

C26_WhitespaceCollapsed ==
    (call.fn = "process_stream" /\ call.output.emitted) =>
        LET text == call.output.text
        IN /\ \A i \in DOMAIN text : text[i] \in Whitespace => text[i] = " "
           /\ \A i \in 1..(Len(text) - 1) :
                  ~(text[i] \in Whitespace /\ text[i + 1] \in Whitespace)

\* C27: when force_single_channel is unset and the device delivers C > 1 channels, the
\* callback receives exactly frame_count mono samples and each of them is the
\* arithmetic mean of the C channel samples of the same frame, on both back ends.
C27_MonoIsMeanOfChannels ==
    (/\ call.fn \in {"CoreAudioCallback", "MiniaudioCallback"}
     /\ ~call.input.config.force_single_channel
     /\ Len(call.input.frames[1]) > 1) =>
        LET frames == call.input.frames
            C == Len(frames[1])
        IN /\ Len(call.output) = Len(frames)
           /\ \A i \in 1..Len(frames) : call.output[i] * C = SumOf(frames[i])

\* C28: a worker blocked on the empty queue is always woken by a stop request: under
\* every interleaving of stop() with the worker's predicate check and wait, stop() does
\* not wait at the join for a worker that is blocked in the wait.
C28_StopWakesWorker ==
    ~(ctlPc = "join" /\ workerPc = "blocked")

\* C29: the writes to one connection are serialized: on every socket each length prefix
\* is immediately followed by the body of the same message, and each body immediately
\* follows its own prefix.
C29_WritesNotInterleaved ==
    \A fd \in FDs : \A i \in DOMAIN wire[fd] :
        LET piece == wire[fd][i]
        IN /\ (piece[3] = "prefix" /\ i < Len(wire[fd])) =>
                  wire[fd][i + 1] = <<piece[1], piece[2], "body">>
           /\ piece[3] = "body" =>
                  (i > 1 /\ wire[fd][i - 1] = <<piece[1], piece[2], "prefix">>)

\* C30: during a broadcast the map mutex is held only while the connection handles are
\* read: no socket write of the broadcast is made, or in progress, while the mutex is
\* held.
C30_NoWriteUnderMutex ==
    bcast.pc = "body" => clients_mutex # "worker"

\* C31: the VAD and the speech buffer are touched by one thread at a time: while the
\* audio thread is inside feed_audio (between its entry check and its return), no step
\* of another thread changes the VAD or the speech buffer.
C31_SegmenterSingleThreaded ==
    [][(feedPc = "process" /\ feedPc' = "process") =>
          (vad_' = vad_ /\ speech_buffer_' = speech_buffer_)]_vars

\* a call of feed_audio is made while the engine is paused
FedWhilePaused == paused /\ Len(fed') = Len(fed) + 1

\* C34: while the engine is paused, feed_audio drops the frame before VAD processing and
\* leaves the VAD (state, counters, noise floor, pre-speech ring), the speech buffer and
\* the utterance queue unchanged.
C34_PausedFrameDropped ==
    [][FedWhilePaused =>
          /\ feedPc' = "idle" /\ curFrame' = curFrame
          /\ vad_' = vad_
          /\ speech_buffer_' = speech_buffer_ /\ in_speech_' = in_speech_
          /\ audio_queue_' = audio_queue_]_vars

\* a loud frame was processed, then pause, then a frame was fed and dropped: the VAD is
\* still in SPEECH_MAYBE with the first frame in its ring and in the speech buffer
C34_Witness ==
    /\ Len(fed) = 2
    /\ fed[1].accepted /\ ~fed[1].paused
    /\ fed[2].paused /\ ~fed[2].accepted
    /\ feedPc = "idle"
    /\ vad_.state = "SPEECH_MAYBE"
    /\ FramesOf(vad_.audio_buffer) = {1}
    /\ FramesOf(speech_buffer_) = {1}

\* the step is a call of VAD::process
ProcessCall == vadLog'.op = "process" /\ vadLog'.n = vadLog.n + 1

\* C35: VAD::process changes the noise floor and the energy history only when the state
\* at entry is SILENCE and the adaptive mode is on: a frame processed in SPEECH_MAYBE,
\* SPEECH or SPEECH_ENDING, or without the adaptive mode, leaves both unchanged.
C35_NoiseFloorOnlyInSilence ==
    [][(ProcessCall /\ ~(vad_.state = "SILENCE" /\ vad_.config.use_adaptive_threshold)) =>
          /\ vad_'.noise_floor = vad_.noise_floor
          /\ vad_'.energy_history = vad_.energy_history
          /\ vad_'.energy_history_idx = vad_.energy_history_idx]_vars

\* a frame was processed in SPEECH_MAYBE by an adaptive VAD whose noise floor had moved
\* off its initial value, and the noise floor and the history are those of before the call
C35_Witness ==
    /\ vadLog.op = "process"
    /\ vadLog.before.state = "SPEECH_MAYBE"
    /\ vadLog.before.config.use_adaptive_threshold
    /\ vadLog.before.energy_history_idx > 0
    /\ vad_.noise_floor = vadLog.before.noise_floor
    /\ vad_.energy_history = vadLog.before.energy_history

\* C36: in every reachable state, including after update_config has changed
\* pre_speech_buffer_ms, the pre-speech ring holds at most pre_speech_buffer_ms worth of
\* samples.
C36_RingWithinConfiguredLength ==
    Size(vad_.audio_buffer) * 1000 <= vad_.config.pre_speech_buffer_ms * vad_.config.sample_rate

\* C37: after any sequence of pause and resume commands, the listening value get_status
\* returns is the one the most recent pause or resume acknowledged: false after pause
\* (the engine is paused), true after resume.
C37_StatusMatchesPause ==
    lastCmd.action = "get_status" => lastCmd.result.listening = ~paused

\* the step is the return of set_model
SetModelReturns == ctlPc = "join" /\ ctlPc' = "idle"

\* C38: set_model leaves the paused flag unchanged: an engine paused before the command
\* is still paused after it.
C38_SetModelKeepsPaused ==
    [][SetModelReturns => paused' = paused]_vars


\* C33: every read and every write of the engine metrics is made with the
\* metrics mutex held, so the copy made by get_metrics on a handler thread is
\* never concurrent with an update of the audio or the worker thread
C33_MetricsUnderMutex == ~(ctlPc = "copy" /\ feedPc = "count")


\* C32: the configuration snapshot is read and replaced under a mutex: a get_config
\* handled while another connection's set_config is being handled never runs while
\* that command is inside its update of the snapshot, so it never returns a partially
\* applied update
C32_SnapshotReadWhole == lastCmd.action = "get_config" => lastCmd.writers = {}

\* C39: a set_config whose result carries success = false leaves the live
\* configuration as it was before the command: the snapshot get_config returns is the
\* one at the entry of the command
C39_FailedSetConfigChangesNothing ==
    (lastCmd.action = "set_config" /\ ~lastCmd.result.success)
        => lastCmd.after = lastCmd.before

\* C40: the file written by a set_config with save = true, loaded at the next start
\* of the daemon, gives the model, VAD, audio and socket parameters that were live
\* when it was written
C40_SavedFileRoundTrips ==
    (lastCmd.action = "set_config" /\ lastCmd.result.success /\ lastCmd.result.config_saved)
        => LoadConfig(config_file) = LiveParameters

=========================================================================
